---- MODULE Spec2Model ----
(***************************************************************************)
(* Level-run engine of kuboble-core (kuboble-core/src/level_run/mod.rs):   *)
(* slide resolution, move history with undo, active-piece cascading and    *)
(* win detection, run on levels of the catalogue (levels.rs); the star     *)
(* rating of a finished run (LevelRating, kuboble-core/src/lib.rs); the    *)
(* order of LevelStatus and the per-level progress store LevelProgress     *)
(* (kuboble-core/src/level_select/mod.rs); the windowed list WindowVec and  *)
(* the level selector LevelSelector built on both, with the slots its      *)
(* changes draw (level_select/render.rs).                                  *)
(***************************************************************************)
EXTENDS Integers, Sequences, FiniteSets, TLC

VARIABLES
    level,          \* LevelRunState::level: which level of LEVELS is being run
    std,            \* TRUE in a build with feature "std" (unbounded Vec history)
    positions,      \* LevelRunState::positions
    move_stack,     \* LevelRun::move_stack
    active_piece,   \* LevelRun::active_piece
    action,         \* the Action last passed to execute_action
    change,         \* the LevelRunChange it returned
    panicked,       \* TRUE once execute_action has panicked instead of returning
    par,            \* LevelRating::new: the argument `goal`
    moves_taken,    \* LevelRating::new: the argument `num_moves`
    overflow_checks,\* TRUE in a build that panics on integer overflow (debug profile)
    rated,          \* what the call of LevelRating::new came to
    lhs,            \* LevelStatus comparison: `self`
    rhs,            \* LevelStatus comparison: `other`
    compared,       \* what cmp and eq returned for them
    level_statuses, \* LevelProgress::level_statuses
    call,           \* the last call on the LevelProgress, with what it returned
    window,         \* a WindowVec on its own (tests::window_vec)
    window_call,    \* the last call on it, with the WindowChange it returned
    active_filter,  \* LevelSelector::active_filter
    level_indices_window, \* LevelSelector::level_indices_window
    window_positions      \* LevelSelector::window_positions

run_vars == <<level, std, positions, move_stack, active_piece, action, change, panicked>>

rating_vars == <<par, moves_taken, overflow_checks, rated>>

order_vars == <<lhs, rhs, compared>>

progress_vars == <<level_statuses, call>>

window_vars == <<window, window_call>>

selector_vars == <<active_filter, level_indices_window, window_positions>>

\* What an action of the level run leaves alone.
outside_run == <<rating_vars, order_vars, progress_vars, window_vars, selector_vars>>

vars == <<run_vars, rating_vars, order_vars, progress_vars, window_vars, selector_vars>>

(***************************************************************************)
(* Bounds.                                                                 *)
(***************************************************************************)
\* Capacity of the ArrayVec move stack.  The source sets 100 (mod.rs:267);
\* the model runs the same code with a capacity small enough to be filled.
MAX_MOVES == 6

\* Longest history explored in the std build, whose Vec never fills.
MaxStdHistory == 3

\* Moves explored in the std build on top of a history of LongHistory entries.
MaxLongMoves == 6

\* Number of levels of the catalogue, the capacity of the progress array.
\* The source has 287 (levels.rs:43); the model keeps a catalogue of few.
NUM_LEVELS == 4

\* Levels unlocked ahead of the completed ones.  The source has 10
\* (level_select/mod.rs:150); the model unlocks fewer at a time.
UNLOCKED_AHEAD == 2

\* Window size of the selector, the const parameter W of WindowVec and
\* LevelSelector.  The engines take 7 and 10; the model takes a window
\* that the lists of NUM_LEVELS levels outgrow.
W == 2

\* Capacity of the WindowVec that is driven on its own (16 in
\* tests::window_vec).
WindowCapacity == 4

(***************************************************************************)
(* Option<T>: None is the empty sequence, Some(x) the one-element one.     *)
(***************************************************************************)
None == <<>>

Some(x) == <<x>>

is_some(o) == Len(o) = 1

unwrap(o) == o[1]

\* u8::MAX
u8_MAX == 255

\* levels::MAX_OPTIMAL_MOVES, the capacity of the move list of LevelStatus::Optimal
MAX_OPTIMAL_MOVES == 54

\* The shortest history whose length no u8 holds.
LongHistory == u8_MAX + 1

\* The history lengths of the std build at which the model lets a Move in.
CanGrow(n) ==
    \/ n < MaxStdHistory
    \/ n >= LongHistory /\ n < LongHistory + MaxLongMoves

(***************************************************************************)
(* Pieces, spaces, vectors.                                                *)
(***************************************************************************)
\* enum Piece in declaration order; Piece::default() is the first.
PieceOrder == <<"Green", "Orange", "Blue">>

Piece_default == PieceOrder[1]

\* `piece as u8`
Piece_as_u8(piece) == (CHOOSE i \in 1..Len(PieceOrder) : PieceOrder[i] = piece) - 1

\* Piece::try_from(u8).unwrap()
Piece_try_from(n) == PieceOrder[n + 1]

Void == [kind |-> "Void", piece |-> "-"]

Wall == [kind |-> "Wall", piece |-> "-"]

Free == [kind |-> "Free", piece |-> "-"]

Goal(piece) == [kind |-> "Goal", piece |-> piece]

\* Space::from_char, as used by convert_spaces for the level literals.
Space_from_char(c) ==
    CASE c = "#" -> Wall
      [] c = " " -> Free
      [] c = "_" -> Void
      [] c = "G" -> Goal("Green")
      [] c = "O" -> Goal("Orange")
      [] c = "B" -> Goal("Blue")

Vector_new(x, y) == [x |-> x, y |-> y]

\* Vector<u8> + Vector<i8>; the source unwraps the conversion back to u8.
Vector_add(a, v) == Vector_new(a.x + v.x, a.y + v.y)

\* Vector<i8> * i8
Vector_mul(v, k) == Vector_new(k * v.x, k * v.y)

Min2(a, b) == IF a <= b THEN a ELSE b

Max2(a, b) == IF a <= b THEN b ELSE a

\* Vector::min: the top-left of two cells of one row or column.
Vector_min(a, b) == Vector_new(Min2(a.x, b.x), Min2(a.y, b.y))

(***************************************************************************)
(* Directions and moves.                                                   *)
(***************************************************************************)
Direction == {"Up", "Down", "Left", "Right"}

Direction_neg(d) ==
    CASE d = "Up" -> "Down"
      [] d = "Down" -> "Up"
      [] d = "Left" -> "Right"
      [] d = "Right" -> "Left"

as_vector(d) ==
    CASE d = "Up" -> Vector_new(0, -1)
      [] d = "Down" -> Vector_new(0, 1)
      [] d = "Left" -> Vector_new(-1, 0)
      [] d = "Right" -> Vector_new(1, 0)

is_horizontal(d) == d \in {"Left", "Right"}

Move_new(piece, direction) == [piece |-> piece, direction |-> direction]

Move_neg(muv) == [piece |-> muv.piece, direction |-> Direction_neg(muv.direction)]

(***************************************************************************)
(* Levels.                                                                 *)
(***************************************************************************)
RECURSIVE Flatten(_)
Flatten(rows) ==
    IF rows = <<>> THEN <<>> ELSE Head(rows) \o Flatten(Tail(rows))

\* convert_spaces: the rows of characters become the row-major array.
convert_spaces(rows) ==
    LET chars == Flatten(rows)
    IN  [i \in 1..Len(chars) |-> Space_from_char(chars[i])]

\* The level! macro.
MakeLevel(rows, starts, optimal) ==
    [size |-> Vector_new(Len(rows[1]), Len(rows)),
     spaces |-> convert_spaces(rows),
     starting_positions |-> starts,
     optimal_moves |-> optimal]

Level5 ==
    MakeLevel(<< <<"_", "#", "#", "#", "#", "#">>,
                 <<"#", "#", " ", " ", " ", "#">>,
                 <<"#", "G", " ", " ", " ", "#">>,
                 <<"#", "#", "O", " ", " ", "#">>,
                 <<"_", "#", "#", "#", "#", "#">> >>,
              <<Vector_new(4, 1), Vector_new(3, 1)>>,
              5)

Level54 ==
    MakeLevel(<< <<"_", "#", "#", "#", "#", "#">>,
                 <<"#", "#", " ", "G", " ", "#">>,
                 <<"#", " ", "B", "#", " ", "#">>,
                 <<"#", " ", " ", "O", " ", "#">>,
                 <<"#", "#", "#", "#", "#", "#">> >>,
              <<Vector_new(4, 1), Vector_new(3, 1), Vector_new(2, 1)>>,
              13)

\* The static LEVELS array, cut down to the levels the model runs.
LEVELS == <<Level5, Level54>>

\* Level::get_space: row-major lookup (1-based here).
get_space(lvl, position) == lvl.spaces[lvl.size.x * position.y + position.x + 1]

\* Level::num_pieces
num_pieces(lvl) == Len(lvl.starting_positions)

\* Level::all_pieces: the level's pieces in enum order.
all_pieces(lvl) == SubSeq(PieceOrder, 1, num_pieces(lvl))

Pieces(lvl) == {all_pieces(lvl)[i] : i \in 1..num_pieces(lvl)}

\* Level::all_positions
all_positions(lvl) == {Vector_new(x, y) : x \in 0..(lvl.size.x - 1), y \in 0..(lvl.size.y - 1)}

\* LevelRunState::from(&Level)
starting_state(lvl) ==
    [piece \in Pieces(lvl) |-> lvl.starting_positions[Piece_as_u8(piece) + 1]]

(***************************************************************************)
(* PieceSlid.                                                              *)
(***************************************************************************)
\* PieceSlid::slide_distance: `len() as u8 - 1`
slide_distance(slid) == (Len(slid.strip_spaces) % 256) - 1

\* starting_position that takes the strip's top-left in every direction.
starting_position_top_left(slid) == slid.strip_top_left

\* PieceSlid::starting_position
starting_position(slid) ==
    IF slid.muv.direction \in {"Right", "Down"}
    THEN slid.strip_top_left
    ELSE Vector_add(slid.strip_top_left,
                    Vector_mul(as_vector(Direction_neg(slid.muv.direction)),
                               slide_distance(slid)))

\* impl Neg for PieceSlid
PieceSlid_neg(slid) ==
    [muv |-> Move_neg(slid.muv),
     strip_top_left |-> slid.strip_top_left,
     strip_spaces |-> slid.strip_spaces]

(***************************************************************************)
(* LevelRunState.                                                          *)
(***************************************************************************)
\* is_winning that accepts a piece on the Goal cell of any piece.
is_winning_on_any_goal(lvl, pos) ==
    \A i \in 1..num_pieces(lvl) :
        get_space(lvl, pos[all_pieces(lvl)[i]]).kind = "Goal"

\* LevelRunState::is_winning
is_winning(lvl, pos) ==
    \A i \in 1..num_pieces(lvl) :
        get_space(lvl, pos[all_pieces(lvl)[i]]) = Goal(all_pieces(lvl)[i])

\* blocked with the test for pieces left out.
blocked_by_walls_only(lvl, pos, new_position) ==
    get_space(lvl, new_position) = Wall

\* blocked with the test for pieces looking at the first piece only.
blocked_by_first_piece(lvl, pos, new_position) ==
    \/ get_space(lvl, new_position) = Wall
    \/ new_position = pos[all_pieces(lvl)[1]]

\* The test that ends the slide loop: a wall or a piece in the next cell.
blocked(lvl, pos, new_position) ==
    \/ get_space(lvl, new_position) = Wall
    \/ \E i \in 1..num_pieces(lvl) : new_position = pos[all_pieces(lvl)[i]]

\* The slide loop stepping before it tests: it stops on the blocking cell.
RECURSIVE slide_loop_overshoot(_, _, _, _, _)
slide_loop_overshoot(lvl, pos, position, vector, distance) ==
    LET new_position == Vector_add(position, vector)
    IN  IF blocked(lvl, pos, new_position)
        THEN [position |-> new_position, distance |-> distance + 1]
        ELSE slide_loop_overshoot(lvl, pos, new_position, vector, distance + 1)

\* The slide loop: one cell at a time until blocked.
RECURSIVE slide_loop(_, _, _, _, _)
slide_loop(lvl, pos, position, vector, distance) ==
    LET new_position == Vector_add(position, vector)
    IN  IF blocked(lvl, pos, new_position)
        THEN [position |-> position, distance |-> distance]
        ELSE slide_loop(lvl, pos, new_position, vector, distance + 1)

\* The test with >= for >.
slid_at_all_or_not(distance) == distance >= 0

\* `if distance > 0`
slid_at_all(distance) == distance > 0

\* The strip taken over the exclusive range lo..hi.
strip_spaces_exclusive(lvl, direction, start, position) ==
    IF is_horizontal(direction)
    THEN LET lo == Min2(start.x, position.x)
             hi == Max2(start.x, position.x)
         IN  [i \in 1..(hi - lo) |-> get_space(lvl, Vector_new(lo + i - 1, position.y))]
    ELSE LET lo == Min2(start.y, position.y)
             hi == Max2(start.y, position.y)
         IN  [i \in 1..(hi - lo) |-> get_space(lvl, Vector_new(position.x, lo + i - 1))]

\* The strip of a slide: the terrain from the start cell through the end cell.
strip_spaces(lvl, direction, start, position) ==
    IF is_horizontal(direction)
    THEN LET lo == Min2(start.x, position.x)
             hi == Max2(start.x, position.x)
         IN  [i \in 1..(hi - lo + 1) |-> get_space(lvl, Vector_new(lo + i - 1, position.y))]
    ELSE LET lo == Min2(start.y, position.y)
             hi == Max2(start.y, position.y)
         IN  [i \in 1..(hi - lo + 1) |-> get_space(lvl, Vector_new(position.x, lo + i - 1))]

\* LevelRunState::attempt_move: the positions afterwards and Option<PieceSlid>.
State_attempt_move(lvl, pos, muv) ==
    LET start == pos[muv.piece]
        end == slide_loop(lvl, pos, start, as_vector(muv.direction), 0)
    IN  IF slid_at_all(end.distance)
        THEN [positions |-> [pos EXCEPT ![muv.piece] = end.position],
              slid |-> Some([muv |-> muv,
                             strip_top_left |-> Vector_min(start, end.position),
                             strip_spaces |-> strip_spaces(lvl, muv.direction, start, end.position)])]
        ELSE [positions |-> pos, slid |-> None]

\* A teleport that leaves the piece where it stands.
teleport_piece_nowhere(pos, piece, new_position) == pos

\* LevelRunState::teleport_piece
teleport_piece(pos, piece, new_position) == [pos EXCEPT ![piece] = new_position]

(***************************************************************************)
(* LevelRun.                                                               *)
(***************************************************************************)
\* is_full that answers as the std build's does in every build.
is_full_never(stack) == FALSE

\* is_full that answers only once the stack holds more than its capacity.
is_full_past_capacity(stack) == IF std THEN FALSE ELSE Len(stack) > MAX_MOVES

\* is_full of the move stack: ArrayVec::is_full, or VecExt::is_full under std.
is_full(stack) == IF std THEN FALSE ELSE Len(stack) = MAX_MOVES

\* LevelRun::num_moves: `len() as u8`
num_moves(stack) == Len(stack) % 256

\* u8 `a + b` as a build without overflow checks computes it.
wrapping_add(a, b) == (a + b) % (u8_MAX + 1)

\* u8 `a + b` leaves the type: a panic in a build with overflow checks.
add_overflows(a, b) == a + b > u8_MAX

\* LevelRating::new; `goal + 3` is a u8 sum.
LevelRating_new(goal, moves) ==
    IF moves <= goal THEN 5
    ELSE IF moves <= wrapping_add(goal, 3) THEN 5 - (moves - goal)
    ELSE 1

\* The call of LevelRating::new evaluates a sum that overflows.
LevelRating_new_overflows(goal, moves) == ~(moves <= goal) /\ add_overflows(goal, 3)

\* LevelRating::is_optimal
is_optimal(rating) == rating = 5

\* LevelRun::winning_status.  collect() into the ArrayVec of Optimal panics
\* when the history has more moves than the ArrayVec holds: kind "Panic".
winning_status(lvl, pos, stack) ==
    IF is_winning(lvl, pos)
    THEN LET rating == LevelRating_new(lvl.optimal_moves, num_moves(stack))
         IN  Some(IF is_optimal(rating)
                  THEN IF Len(stack) > MAX_OPTIMAL_MOVES
                       THEN [kind |-> "Panic", moves |-> <<>>, rating |-> rating]
                       ELSE [kind |-> "Optimal", moves |-> [i \in 1..Len(stack) |-> stack[i].muv], rating |-> rating]
                  ELSE [kind |-> "Complete", moves |-> <<>>, rating |-> rating])
    ELSE None

\* The call of winning_status did not return.
did_panic(status) == is_some(status) /\ unwrap(status).kind = "Panic"

\* LevelRunChange::default()
LevelRunChange_default ==
    [pieces_changed |-> None,
     num_moves_changed |-> None,
     winning_status |-> None,
     at_max_moves |-> FALSE]

RECURSIVE Reverse(_)
Reverse(seq) == IF seq = <<>> THEN <<>> ELSE Append(Reverse(Tail(seq)), Head(seq))

\* other_pieces taken in the reverse of the piece order.
other_pieces_reversed(lvl, active) ==
    Reverse(SelectSeq(all_pieces(lvl), LAMBDA p : p # active))

\* The pieces the cascade tries: all_pieces().filter(|p| *p != active_piece)
other_pieces(lvl, active) == SelectSeq(all_pieces(lvl), LAMBDA p : p # active)

\* A cascade loop without its break: every piece is tried, each on the
\* state the piece before it left, and the last slide is the one returned.
RECURSIVE cascade_without_break(_, _, _, _)
cascade_without_break(lvl, pos, pieces, direction) ==
    IF pieces = <<>>
    THEN [positions |-> pos, slid |-> None]
    ELSE LET r == State_attempt_move(lvl, pos, Move_new(Head(pieces), direction))
             rest == cascade_without_break(lvl, r.positions, Tail(pieces), direction)
         IN  IF is_some(rest.slid) THEN rest ELSE [positions |-> rest.positions, slid |-> r.slid]

\* The cascade loop: each piece in turn on new_state, stopping at the first slide.
RECURSIVE cascade(_, _, _, _)
cascade(lvl, pos, pieces, direction) ==
    IF pieces = <<>>
    THEN [positions |-> pos, slid |-> None]
    ELSE LET r == State_attempt_move(lvl, pos, Move_new(Head(pieces), direction))
         IN  IF is_some(r.slid) THEN r
             ELSE cascade(lvl, r.positions, Tail(pieces), direction)

\* LevelRun::level: the level the run refers to
this_level == LEVELS[level]

ActionOf(kind, direction) == [kind |-> kind, direction |-> direction]

\* LevelRun::attempt_move.  `first` is the attempt on the active piece and
\* `tried` the attempt that stands after the cascade (each bound once).
attempt_move(direction) ==
    \E first \in {State_attempt_move(this_level, positions, Move_new(active_piece, direction))} :
    \E tried \in {IF is_some(first.slid) THEN first
                 ELSE cascade(this_level, first.positions, other_pieces(this_level, active_piece), direction)} :
    LET moved == tried.slid
        switched == ~is_some(first.slid) /\ is_some(moved)
        old_active_piece ==
            IF switched
            THEN Some([piece |-> active_piece, position |-> tried.positions[active_piece]])
            ELSE None
        commit == is_some(moved) /\ ~is_full(move_stack)
        stack2 == IF commit THEN Append(move_stack, unwrap(moved)) ELSE move_stack
        pos2 == IF commit THEN tried.positions ELSE positions
    IN  \E status \in {IF commit THEN winning_status(this_level, pos2, stack2) ELSE None} :
        /\ ~panicked
        /\ std => CanGrow(Len(move_stack))
        /\ action' = ActionOf("Move", direction)
        /\ active_piece' = IF switched THEN unwrap(moved).muv.piece ELSE active_piece
        /\ move_stack' = stack2
        /\ positions' = pos2
        /\ panicked' = did_panic(status)
        /\ change' =
             IF did_panic(status)
             THEN LevelRunChange_default
             ELSE [pieces_changed |->
                       IF commit
                       THEN Some([kind |-> "Slid",
                                  piece_slid |-> unwrap(moved),
                                  is_active |-> TRUE,
                                  old_active_piece |-> old_active_piece])
                       ELSE None,
                   num_moves_changed |-> IF commit THEN Some(num_moves(stack2)) ELSE None,
                   winning_status |-> status,
                   at_max_moves |-> is_full(stack2)]
        /\ UNCHANGED <<level, std>>
        /\ UNCHANGED outside_run

\* change_active_piece with the change also filled with winning_status().
change_active_piece_with_status ==
    LET new_piece == Piece_try_from((Piece_as_u8(active_piece) + 1) % num_pieces(this_level))
    IN  /\ ~panicked
        /\ action' = ActionOf("ChangeActivePiece", "-")
        /\ active_piece' = new_piece
        /\ change' = [LevelRunChange_default EXCEPT
                          !.pieces_changed = Some([kind |-> "ActivePiece",
                                                   active_piece |-> new_piece,
                                                   positions |-> positions]),
                          !.winning_status = winning_status(this_level, positions, move_stack)]
        /\ UNCHANGED <<level, std, positions, move_stack, panicked>>
        /\ UNCHANGED outside_run

\* change_active_piece as the older engine of lib.rs has it: a toggle
\* between the first two pieces.
change_active_piece_of_two ==
    LET new_piece == IF active_piece = PieceOrder[1] THEN PieceOrder[2] ELSE PieceOrder[1]
    IN  /\ ~panicked
        /\ action' = ActionOf("ChangeActivePiece", "-")
        /\ active_piece' = new_piece
        /\ change' = [LevelRunChange_default EXCEPT
                          !.pieces_changed = Some([kind |-> "ActivePiece",
                                                   active_piece |-> new_piece,
                                                   positions |-> positions])]
        /\ UNCHANGED <<level, std, positions, move_stack, panicked>>
        /\ UNCHANGED outside_run

\* LevelRun::change_active_piece, wrapped by execute_action
change_active_piece ==
    LET new_piece == Piece_try_from((Piece_as_u8(active_piece) + 1) % num_pieces(this_level))
    IN  /\ ~panicked
        /\ action' = ActionOf("ChangeActivePiece", "-")
        /\ active_piece' = new_piece
        /\ change' = [LevelRunChange_default EXCEPT
                          !.pieces_changed = Some([kind |-> "ActivePiece",
                                                   active_piece |-> new_piece,
                                                   positions |-> positions])]
        /\ UNCHANGED <<level, std, positions, move_stack, panicked>>
        /\ UNCHANGED outside_run

\* undo_move's pop().unwrap(): the entry taken back and the stack left.
last_slide(stack) == stack[Len(stack)]

popped(stack) == SubSeq(stack, 1, Len(stack) - 1)

\* An undo that leaves the undone piece where it stands.
undone_positions_in_place(pos, stack) == pos

\* undo_move's teleport of the undone piece to the slide's starting position.
undone_positions(pos, stack) ==
    teleport_piece(pos, last_slide(stack).muv.piece, starting_position(last_slide(stack)))

\* LevelRun::undo_move
undo_move ==
    /\ ~panicked
    /\ action' = ActionOf("UndoMove", "-")
    /\ IF move_stack # <<>>
       THEN /\ move_stack' = popped(move_stack)
            /\ positions' = undone_positions(positions, move_stack)
            /\ change' = [LevelRunChange_default EXCEPT
                              !.pieces_changed =
                                  Some([kind |-> "Slid",
                                        piece_slid |-> PieceSlid_neg(last_slide(move_stack)),
                                        is_active |-> last_slide(move_stack).muv.piece = active_piece,
                                        old_active_piece |-> None]),
                              !.num_moves_changed = Some(num_moves(popped(move_stack)))]
       ELSE /\ change' = LevelRunChange_default
            /\ UNCHANGED <<positions, move_stack>>
    /\ UNCHANGED <<level, std, active_piece, panicked>>
    /\ UNCHANGED outside_run

\* restart as the older engine of lib.rs guards it: only with two moves or more.
restart_after_two_moves ==
    /\ ~panicked
    /\ action' = ActionOf("Restart", "-")
    /\ IF Len(move_stack) > 1
       THEN /\ positions' = starting_state(this_level)
            /\ move_stack' = <<>>
            /\ active_piece' = Piece_default
            /\ change' = [LevelRunChange_default EXCEPT
                              !.pieces_changed = Some([kind |-> "Moved", moved |-> <<>>]),
                              !.num_moves_changed = Some(num_moves(<<>>))]
       ELSE /\ change' = LevelRunChange_default
            /\ UNCHANGED <<positions, move_stack, active_piece>>
    /\ UNCHANGED <<level, std, panicked>>
    /\ UNCHANGED outside_run

\* A restart whose report marks the piece that was active before it.
restart_marking_old_active ==
    /\ ~panicked
    /\ action' = ActionOf("Restart", "-")
    /\ IF move_stack # <<>>
       THEN /\ positions' = starting_state(this_level)
            /\ move_stack' = <<>>
            /\ active_piece' = Piece_default
            /\ change' = [LevelRunChange_default EXCEPT
                              !.pieces_changed =
                                  Some([kind |-> "Moved",
                                        moved |-> [i \in 1..num_pieces(this_level) |->
                                            LET piece == all_pieces(this_level)[i]
                                                from == positions[piece]
                                            IN  [piece |-> piece,
                                                 is_active |-> piece = active_piece,
                                                 from |-> from,
                                                 from_space |-> get_space(this_level, from),
                                                 to |-> starting_state(this_level)[piece]]]]),
                              !.num_moves_changed = Some(num_moves(<<>>))]
       ELSE /\ change' = LevelRunChange_default
            /\ UNCHANGED <<positions, move_stack, active_piece>>
    /\ UNCHANGED <<level, std, panicked>>
    /\ UNCHANGED outside_run

\* LevelRun::restart
restart ==
    /\ ~panicked
    /\ action' = ActionOf("Restart", "-")
    /\ IF move_stack # <<>>
       THEN /\ positions' = starting_state(this_level)
            /\ move_stack' = <<>>
            /\ active_piece' = Piece_default
            /\ change' = [LevelRunChange_default EXCEPT
                              !.pieces_changed =
                                  Some([kind |-> "Moved",
                                        moved |-> [i \in 1..num_pieces(this_level) |->
                                            LET piece == all_pieces(this_level)[i]
                                                from == positions[piece]
                                            IN  [piece |-> piece,
                                                 is_active |-> piece = Piece_default,
                                                 from |-> from,
                                                 from_space |-> get_space(this_level, from),
                                                 to |-> starting_state(this_level)[piece]]]]),
                              !.num_moves_changed = Some(num_moves(<<>>))]
       ELSE /\ change' = LevelRunChange_default
            /\ UNCHANGED <<positions, move_stack, active_piece>>
    /\ UNCHANGED <<level, std, panicked>>
    /\ UNCHANGED outside_run

(***************************************************************************)
(* LevelStatus, Filter, LevelProgress.                                     *)
(***************************************************************************)
\* LevelRating::default(): no star
LevelRating_default == 0

\* LevelRating::maximum_possible()
LevelRating_maximum_possible == 5

\* Ord for LevelRating: the order of the star counts.
LevelRating_cmp(a, b) == IF a < b THEN "Less" ELSE IF a = b THEN "Equal" ELSE "Greater"

\* The variants of LevelStatus, in the record shape winning_status returns.
LevelStatus_Incomplete == [kind |-> "Incomplete", moves |-> <<>>, rating |-> LevelRating_default]

LevelStatus_Complete(rating) == [kind |-> "Complete", moves |-> <<>>, rating |-> rating]

LevelStatus_Optimal(moves) == [kind |-> "Optimal", moves |-> moves, rating |-> LevelRating_maximum_possible]

\* LevelStatus::default()
LevelStatus_default == LevelStatus_Incomplete

\* LevelStatus::rating
LevelStatus_rating(status) ==
    CASE status.kind = "Incomplete" -> LevelRating_default
      [] status.kind = "Complete" -> status.rating
      [] status.kind = "Optimal" -> LevelRating_maximum_possible

\* LevelStatus::is_complete
LevelStatus_is_complete(status) ==
    CASE status.kind = "Incomplete" -> FALSE
      [] status.kind = "Complete" -> TRUE
      [] status.kind = "Optimal" -> TRUE

\* core::mem::discriminant
discriminant(status) == status.kind

\* PartialEq for LevelStatus
LevelStatus_eq(self, other) ==
    IF self.kind = "Complete" /\ other.kind = "Complete"
    THEN self.rating = other.rating
    ELSE discriminant(self) = discriminant(other)

\* The order #[derive(PartialOrd, Ord)] would give: variants in declaration
\* order, and the fields within a variant, so Optimal by its move list.
LevelStatus_cmp_derived(self, other) ==
    LET variant(status) == CASE status.kind = "Incomplete" -> 0
                             [] status.kind = "Complete" -> 1
                             [] status.kind = "Optimal" -> 2
    IN  IF variant(self) # variant(other)
        THEN LevelRating_cmp(variant(self), variant(other))
        ELSE IF self.kind = "Complete"
        THEN LevelRating_cmp(self.rating, other.rating)
        ELSE IF self.moves = other.moves
        THEN "Equal"
        ELSE IF Len(self.moves) <= Len(other.moves)
        THEN "Less"
        ELSE "Greater"

\* Ord for LevelStatus
LevelStatus_cmp(self, other) ==
    CASE self.kind = "Incomplete" ->
             IF other.kind = "Incomplete" THEN "Equal" ELSE "Less"
      [] self.kind = "Complete" ->
             (CASE other.kind = "Incomplete" -> "Greater"
                [] other.kind = "Complete" -> LevelRating_cmp(self.rating, other.rating)
                [] other.kind = "Optimal" -> "Less")
      [] self.kind = "Optimal" ->
             IF other.kind = "Optimal" THEN "Equal" ELSE "Greater"

\* `a >= b` in the place of `a > b`.
LevelStatus_ge(a, b) == LevelStatus_cmp(a, b) # "Less"

\* `a > b`: PartialOrd::gt through partial_cmp, which is Some(cmp)
LevelStatus_gt(a, b) == LevelStatus_cmp(a, b) = "Greater"

\* enum Filter
Filter == {"All", "Incomplete", "PartiallyComplete", "Optimal"}

\* Filter::passes with PartiallyComplete passing every completed level.
Filter_passes_every_complete(filter, level_status) ==
    CASE filter = "All" -> TRUE
      [] filter = "Incomplete" -> ~LevelStatus_is_complete(level_status)
      [] filter = "PartiallyComplete" -> LevelStatus_is_complete(level_status)
      [] filter = "Optimal" -> is_optimal(LevelStatus_rating(level_status))

\* Filter::passes
Filter_passes(filter, level_status) ==
    CASE filter = "All" -> TRUE
      [] filter = "Incomplete" -> ~LevelStatus_is_complete(level_status)
      [] filter = "PartiallyComplete" ->
             LevelStatus_is_complete(level_status) /\ ~is_optimal(LevelStatus_rating(level_status))
      [] filter = "Optimal" -> is_optimal(LevelStatus_rating(level_status))

\* num_unlocked_levels of the build with feature "unlocked".
num_unlocked_levels_unlocked(statuses) == NUM_LEVELS

\* num_unlocked_levels without the cap at the number of levels.
num_unlocked_levels_uncapped(statuses) ==
    Cardinality({i \in 1..Len(statuses) : LevelStatus_is_complete(statuses[i])})
        + UNLOCKED_AHEAD

\* LevelProgress::num_unlocked_levels (feature "unlocked" off)
num_unlocked_levels(statuses) ==
    Min2(NUM_LEVELS,
         Cardinality({i \in 1..Len(statuses) : LevelStatus_is_complete(statuses[i])})
             + UNLOCKED_AHEAD)

\* An extension that fills the array to its capacity at once.
extended_to_capacity(statuses, level_idx) ==
    statuses \o [i \in 1..(NUM_LEVELS - Len(statuses)) |-> LevelStatus_default]

\* attempt_status_update's extension: level_statuses once the element of
\* level_idx exists.
extended(statuses, level_idx) ==
    IF level_idx >= Len(statuses)
    THEN statuses \o [i \in 1..(level_idx - Len(statuses) + 1) |-> LevelStatus_default]
    ELSE statuses

\* LevelProgress::filtered_indices, collected: the stored statuses followed
\* by DEFAULT_STATUS, the first num_unlocked_levels of them, enumerated
\* from 0, and the indices whose status passes.
filtered_indices(statuses, filter) ==
    LET taken == [i \in 1..num_unlocked_levels(statuses) |->
                     IF i <= Len(statuses) THEN statuses[i] ELSE LevelStatus_Incomplete]
    IN  SelectSeq([i \in 1..Len(taken) |-> i - 1],
                  LAMBDA idx : Filter_passes(filter, taken[idx + 1]))

(***************************************************************************)
(* WindowVec<T, C, W>: a list with a window of W items on it and a cursor  *)
(* inside the window.  Indices count from 0, as in the source.             *)
(***************************************************************************)
\* usize::saturating_sub
saturating_sub(a, b) == Max2(a - b, 0)

\* WindowPosition::new
WindowPosition_new(top_idx, cursor_idx) == [top_idx |-> top_idx, cursor_idx |-> cursor_idx]

\* WindowPosition::default()
WindowPosition_default == WindowPosition_new(0, 0)

\* WindowPosition::cursor_window_idx
cursor_window_idx(p) == p.cursor_idx - p.top_idx

\* enum level_select::Direction
SelectDirection == {"Previous", "Next"}

\* WindowChange::compare
WindowChange_compare(old, new) ==
    IF old.top_idx # new.top_idx THEN "Window"
    ELSE IF old.cursor_idx # new.cursor_idx THEN "CursorOnly"
    ELSE "None"

\* WindowChange::any_change
any_change(window_change) == window_change # "None"

\* WindowVec::default()
WindowVec_default == [vec |-> <<>>, position |-> WindowPosition_default]

\* WindowVec::from_iter
WindowVec_from_iter(items) == [vec |-> items, position |-> WindowPosition_default]

\* WindowVec::position
WindowVec_position(self) == IF self.vec # <<>> THEN Some(self.position) ELSE None

\* A clip that keeps the cursor in the window but not in the list.
clip_position_to_window(self, p) ==
    LET top_idx == Min2(p.top_idx, saturating_sub(Len(self.vec), W))
    IN  WindowPosition_new(top_idx, Min2(Max2(p.cursor_idx, top_idx), top_idx + W - 1))

\* A clip in which the cursor takes priority over the window: the cursor is
\* clipped to the list and the top follows it.
clip_position_cursor_first(self, p) ==
    LET cursor_idx == Min2(p.cursor_idx, Len(self.vec) - 1)
        top_idx == Min2(Max2(Min2(p.top_idx, cursor_idx), saturating_sub(cursor_idx, W - 1)),
                        saturating_sub(Len(self.vec), W))
    IN  WindowPosition_new(top_idx, cursor_idx)

\* WindowVec::clip_position
clip_position(self, p) ==
    LET top_idx == Min2(p.top_idx, saturating_sub(Len(self.vec), W))
    IN  WindowPosition_new(top_idx,
                           Min2(Min2(Max2(p.cursor_idx, top_idx), top_idx + W - 1),
                                Len(self.vec) - 1))

\* WindowVec::set_position: the window afterwards and the WindowChange returned.
set_position(self, p) ==
    IF self.vec = <<>>
    THEN [window |-> self, change |-> "None"]
    ELSE LET new_position == clip_position(self, p)
             window_change == WindowChange_compare(self.position, new_position)
         IN  [window |-> IF any_change(window_change)
                         THEN [self EXCEPT !.position = new_position]
                         ELSE self,
              change |-> window_change]

\* A refill that does not clear the vec before it extends it.
refill_without_clear(self, items, p) ==
    set_position([self EXCEPT !.vec = self.vec \o items], p).window

\* WindowVec::refill
refill(self, items, p) == set_position([self EXCEPT !.vec = items], p).window

\* WindowVec::cursor_item
cursor_item(self) ==
    IF is_some(WindowVec_position(self))
    THEN Some(self.vec[unwrap(WindowVec_position(self)).cursor_idx + 1])
    ELSE None

\* A move_cursor that brings the cursor to the top of the window whenever
\* the window has to shift.
move_cursor_to_top(self, direction) ==
    IF is_some(WindowVec_position(self))
    THEN LET p == unwrap(WindowVec_position(self))
             new_cursor_idx == IF direction = "Previous"
                               THEN saturating_sub(p.cursor_idx, 1)
                               ELSE Min2(p.cursor_idx + 1, Len(self.vec) - 1)
             new_top_idx == IF new_cursor_idx < p.top_idx \/ new_cursor_idx > p.top_idx + W - 1
                            THEN new_cursor_idx
                            ELSE p.top_idx
         IN  set_position(self, WindowPosition_new(new_top_idx, new_cursor_idx))
    ELSE [window |-> self, change |-> "None"]

\* WindowVec::move_cursor
move_cursor(self, direction) ==
    IF is_some(WindowVec_position(self))
    THEN LET p == unwrap(WindowVec_position(self))
             new_cursor_idx == IF direction = "Previous"
                               THEN saturating_sub(p.cursor_idx, 1)
                               ELSE Min2(p.cursor_idx + 1, Len(self.vec) - 1)
             new_top_idx == IF new_cursor_idx < p.top_idx THEN new_cursor_idx
                            ELSE IF new_cursor_idx > p.top_idx + W - 1
                                 THEN saturating_sub(new_cursor_idx, W - 1)
                                 ELSE p.top_idx
         IN  set_position(self, WindowPosition_new(new_top_idx, new_cursor_idx))
    ELSE [window |-> self, change |-> "None"]

\* A page_window without the correction for a partial shift: the cursor
\* goes by W and is then clipped.
page_window_saturated(self, direction) ==
    IF is_some(WindowVec_position(self))
    THEN LET p == unwrap(WindowVec_position(self))
             new_position == clip_position(self,
                 IF direction = "Previous"
                 THEN WindowPosition_new(saturating_sub(p.top_idx, W),
                                         saturating_sub(p.cursor_idx, W))
                 ELSE WindowPosition_new(p.top_idx + W, p.cursor_idx + W))
             window_change == WindowChange_compare(p, new_position)
         IN  [window |-> IF any_change(window_change)
                         THEN [self EXCEPT !.position = new_position]
                         ELSE self,
              change |-> window_change]
    ELSE [window |-> self, change |-> "None"]

\* A page_window that leaves the cursor where it is when the window cannot
\* shift.
page_window_keeping_cursor(self, direction) ==
    IF is_some(WindowVec_position(self))
    THEN LET p == unwrap(WindowVec_position(self))
             clipped == clip_position(self,
                 IF direction = "Previous"
                 THEN WindowPosition_new(saturating_sub(p.top_idx, W),
                                         saturating_sub(p.cursor_idx, W))
                 ELSE WindowPosition_new(p.top_idx + W, p.cursor_idx + W))
             shift == IF clipped.top_idx >= p.top_idx
                      THEN clipped.top_idx - p.top_idx
                      ELSE p.top_idx - clipped.top_idx
             new_position == IF shift = 0 THEN p
                             ELSE IF shift < W
                             THEN [clipped EXCEPT !.cursor_idx =
                                      IF direction = "Previous"
                                      THEN p.cursor_idx - shift
                                      ELSE p.cursor_idx + shift]
                             ELSE clipped
             window_change == WindowChange_compare(p, new_position)
         IN  [window |-> IF any_change(window_change)
                         THEN [self EXCEPT !.position = new_position]
                         ELSE self,
              change |-> window_change]
    ELSE [window |-> self, change |-> "None"]

\* WindowVec::page_window
page_window(self, direction) ==
    IF is_some(WindowVec_position(self))
    THEN LET p == unwrap(WindowVec_position(self))
             clipped == clip_position(self,
                 IF direction = "Previous"
                 THEN WindowPosition_new(saturating_sub(p.top_idx, W),
                                         saturating_sub(p.cursor_idx, W))
                 ELSE WindowPosition_new(p.top_idx + W, p.cursor_idx + W))
             shift == IF clipped.top_idx >= p.top_idx
                      THEN clipped.top_idx - p.top_idx
                      ELSE p.top_idx - clipped.top_idx
             new_position == IF shift > 0 /\ shift < W
                             THEN [clipped EXCEPT !.cursor_idx =
                                      IF direction = "Previous"
                                      THEN p.cursor_idx - shift
                                      ELSE p.cursor_idx + shift]
                             ELSE clipped
             window_change == WindowChange_compare(p, new_position)
         IN  [window |-> IF any_change(window_change)
                         THEN [self EXCEPT !.position = new_position]
                         ELSE self,
              change |-> window_change]
    ELSE [window |-> self, change |-> "None"]

\* WindowVec::iter, collected: the W entries of the window, None past the
\* end of the list.
WindowVec_iter(self) ==
    LET top_idx == IF is_some(WindowVec_position(self))
                   THEN unwrap(WindowVec_position(self)).top_idx
                   ELSE 0
    IN  [k \in 1..W |->
            IF top_idx + k <= Len(self.vec)
            THEN Some([is_cursor |-> self.position.top_idx + (k - 1) = self.position.cursor_idx,
                       item |-> self.vec[top_idx + k]])
            ELSE None]

(***************************************************************************)
(* LevelSelector<W>: the progress store, the active filter, the window on  *)
(* the filtered level indices and the position remembered for each filter. *)
(* A selector is the record of these four fields.                          *)
(***************************************************************************)
\* Filter::default()
Filter_default == "All"

\* Filter::next
Filter_next(filter) ==
    CASE filter = "All" -> "Incomplete"
      [] filter = "Incomplete" -> "PartiallyComplete"
      [] filter = "PartiallyComplete" -> "Optimal"
      [] filter = "Optimal" -> "All"

\* A previous that stops at All instead of going round.
Filter_previous_stopping(filter) ==
    CASE filter = "All" -> "All"
      [] filter = "Incomplete" -> "All"
      [] filter = "PartiallyComplete" -> "Incomplete"
      [] filter = "Optimal" -> "PartiallyComplete"

\* Filter::previous
Filter_previous(filter) ==
    CASE filter = "All" -> "Optimal"
      [] filter = "Incomplete" -> "All"
      [] filter = "PartiallyComplete" -> "Incomplete"
      [] filter = "Optimal" -> "PartiallyComplete"

\* LevelProgress::level_info.  The level itself is LEVELS[index], so the
\* index stands for it.
level_info(statuses, level_idx) ==
    [index |-> level_idx,
     rating |-> IF level_idx < Len(statuses)
                THEN LevelStatus_rating(statuses[level_idx + 1])
                ELSE LevelRating_default]

\* LevelProgress::num_locked_levels
num_locked_levels(statuses) == NUM_LEVELS - num_unlocked_levels(statuses)

\* LevelProgress::attempt_status_update as a function of the stored
\* statuses: the statuses afterwards and the flag returned.
status_update(statuses, level_idx, new_status) ==
    LET grown == extended(statuses, level_idx)
        better == LevelStatus_gt(new_status, grown[level_idx + 1])
    IN  [level_statuses |-> IF better
                            THEN [grown EXCEPT ![level_idx + 1] = new_status]
                            ELSE grown,
         updated |-> better]

\* LevelSlotInfo::Empty
LevelSlotInfo_Empty(pos) ==
    [kind |-> "Empty", position |-> pos, level_info |-> None, is_active |-> FALSE]

\* LevelSlotInfo::Level
LevelSlotInfo_Level(info, pos, is_active) ==
    [kind |-> "Level", position |-> pos, level_info |-> Some(info), is_active |-> is_active]

\* LevelSelector::new
LevelSelector_new(statuses) ==
    LET filled == WindowVec_from_iter(filtered_indices(statuses, Filter_default))
    IN  [level_statuses |-> statuses,
         active_filter |-> Filter_default,
         level_indices_window |-> filled,
         window_positions |-> [f \in Filter |-> IF f = Filter_default
                                                THEN WindowVec_position(filled)
                                                ELSE None]]

\* An active_level_idx that falls back on the first level.
active_level_idx_or_first(self) ==
    IF is_some(cursor_item(self.level_indices_window))
    THEN cursor_item(self.level_indices_window)
    ELSE Some(0)

\* LevelSelector::active_level_idx
active_level_idx(self) == cursor_item(self.level_indices_window)

\* LevelSelector::active_level_info
active_level_info(self) ==
    IF is_some(active_level_idx(self))
    THEN Some(level_info(self.level_statuses, unwrap(active_level_idx(self))))
    ELSE None

\* LevelSelector::active_rating
active_rating(self) ==
    IF is_some(active_level_info(self))
    THEN Some(unwrap(active_level_info(self)).rating)
    ELSE None

\* LevelSelector::current_slot
current_slot(self, is_active) ==
    IF is_some(active_level_info(self))
    THEN Some(LevelSlotInfo_Level(
                  unwrap(active_level_info(self)),
                  cursor_window_idx(unwrap(WindowVec_position(self.level_indices_window))),
                  is_active))
    ELSE None

\* LevelSelector::window_slots
window_slots(self) ==
    LET items == WindowVec_iter(self.level_indices_window)
    IN  [k \in 1..W |->
            IF is_some(items[k])
            THEN LevelSlotInfo_Level(level_info(self.level_statuses, unwrap(items[k]).item),
                                     k - 1,
                                     unwrap(items[k]).is_cursor)
            ELSE LevelSlotInfo_Empty(k - 1)]

\* A rebuild that forgets the position remembered for the filter.
rebuild_window_from_the_top(self) ==
    LET refilled == refill(self.level_indices_window,
                           filtered_indices(self.level_statuses, self.active_filter),
                           WindowPosition_default)
    IN  [self EXCEPT !.level_indices_window = refilled,
                     !.window_positions[self.active_filter] = WindowVec_position(refilled)]

\* LevelSelector::rebuild_window
rebuild_window(self) ==
    LET window_position == self.window_positions[self.active_filter]
        refilled == refill(self.level_indices_window,
                           filtered_indices(self.level_statuses, self.active_filter),
                           IF is_some(window_position)
                           THEN unwrap(window_position)
                           ELSE WindowPosition_default)
    IN  [self EXCEPT !.level_indices_window = refilled,
                     !.window_positions[self.active_filter] = WindowVec_position(refilled)]

\* A LevelSelectorChange.
LevelSelectorChange(slots_change, filter_change, num_locked_change, rating) ==
    [slots_change |-> slots_change,
     filter_change |-> filter_change,
     num_locked_change |-> num_locked_change,
     active_rating |-> rating]

\* LevelSelector::check_window_change: the selector afterwards and the
\* Option<LevelSelectorChange> returned.
check_window_change(self, old_active_slot, window_change) ==
    LET noted == [self EXCEPT !.window_positions[self.active_filter] =
                                  WindowVec_position(self.level_indices_window)]
    IN  CASE window_change = "None" -> [selector |-> self, change |-> None]
          [] window_change = "Window" ->
                 [selector |-> noted,
                  change |-> Some(LevelSelectorChange(window_slots(noted), None, None,
                                                      active_rating(noted)))]
          [] window_change = "CursorOnly" ->
                 [selector |-> noted,
                  change |-> Some(LevelSelectorChange(
                                      <<old_active_slot, unwrap(current_slot(noted, TRUE))>>,
                                      None, None, active_rating(noted)))]

\* execute_action, Action::ChangeActiveLevel(dir)
ChangeActiveLevel(self, dir) ==
    IF is_some(current_slot(self, FALSE))
    THEN LET moved == move_cursor(self.level_indices_window, dir)
         IN  check_window_change([self EXCEPT !.level_indices_window = moved.window],
                                 unwrap(current_slot(self, FALSE)),
                                 moved.change)
    ELSE [selector |-> self, change |-> None]

\* execute_action, Action::ChangePage(dir)
ChangePage(self, dir) ==
    IF is_some(current_slot(self, FALSE))
    THEN LET paged == page_window(self.level_indices_window, dir)
         IN  check_window_change([self EXCEPT !.level_indices_window = paged.window],
                                 unwrap(current_slot(self, FALSE)),
                                 paged.change)
    ELSE [selector |-> self, change |-> None]

\* execute_action, Action::ChangeActiveFilter(dir)
ChangeActiveFilter(self, dir) ==
    LET old_filter == self.active_filter
        rebuilt == rebuild_window([self EXCEPT !.active_filter =
                                      IF dir = "Previous"
                                      THEN Filter_previous(self.active_filter)
                                      ELSE Filter_next(self.active_filter)])
    IN  [selector |-> rebuilt,
         change |-> Some(LevelSelectorChange(
                             window_slots(rebuilt),
                             Some([inactive |-> old_filter, active |-> rebuilt.active_filter]),
                             None,
                             active_rating(rebuilt)))]

\* An ActiveLevelCompleted that leaves the window as it was.
ActiveLevelCompleted_without_rebuild(self, new_status) ==
    IF is_some(active_level_idx(self))
    THEN LET update == status_update(self.level_statuses, unwrap(active_level_idx(self)),
                                     new_status)
             stored == [self EXCEPT !.level_statuses = update.level_statuses]
         IN  IF update.updated
             THEN [selector |-> stored,
                   change |-> Some(LevelSelectorChange(
                                       <<unwrap(current_slot(stored, TRUE))>>,
                                       None,
                                       Some(num_locked_levels(stored.level_statuses)),
                                       active_rating(stored)))]
             ELSE [selector |-> stored, change |-> None]
    ELSE [selector |-> self, change |-> None]

\* An ActiveLevelCompleted that rebuilds the window from the default
\* position rather than from the one remembered for the filter.
ActiveLevelCompleted_from_the_top(self, new_status) ==
    IF is_some(active_level_idx(self))
    THEN LET update == status_update(self.level_statuses, unwrap(active_level_idx(self)),
                                     new_status)
             stored == [self EXCEPT !.level_statuses = update.level_statuses]
             rebuilt == rebuild_window([stored EXCEPT !.window_positions[self.active_filter] = None])
         IN  IF update.updated
             THEN [selector |-> rebuilt,
                   change |-> Some(LevelSelectorChange(
                                       <<LevelSlotInfo_Level(
                                             unwrap(active_level_info(stored)),
                                             cursor_window_idx(unwrap(WindowVec_position(
                                                 stored.level_indices_window))),
                                             TRUE)>>,
                                       None,
                                       Some(num_locked_levels(rebuilt.level_statuses)),
                                       active_rating(rebuilt)))]
             ELSE [selector |-> stored, change |-> None]
    ELSE [selector |-> self, change |-> None]

\* execute_action, Action::ActiveLevelCompleted(new_status)
ActiveLevelCompleted(self, new_status) ==
    IF is_some(active_level_idx(self))
    THEN LET update == status_update(self.level_statuses, unwrap(active_level_idx(self)),
                                     new_status)
             stored == [self EXCEPT !.level_statuses = update.level_statuses]
             rebuilt == rebuild_window(stored)
         IN  IF update.updated
             THEN [selector |-> rebuilt,
                   change |-> Some(LevelSelectorChange(
                                       <<LevelSlotInfo_Level(
                                             unwrap(active_level_info(stored)),
                                             cursor_window_idx(unwrap(WindowVec_position(
                                                 stored.level_indices_window))),
                                             TRUE)>>,
                                       None,
                                       Some(num_locked_levels(rebuilt.level_statuses)),
                                       active_rating(rebuilt)))]
             ELSE [selector |-> stored, change |-> None]
    ELSE [selector |-> self, change |-> None]

\* LevelSelectRenderer::draw_level_slot on a display of W slots: the slot
\* drawn takes the place the slot names.
draw_level_slot(drawn, slot) == [drawn EXCEPT ![slot.position] = slot]

RECURSIVE draw_level_slots(_, _)
\* The loop over slots of LevelSelector::render and LevelSelectorChange::render
draw_level_slots(drawn, slots) ==
    IF slots = <<>> THEN drawn
    ELSE draw_level_slots(draw_level_slot(drawn, Head(slots)), Tail(slots))

\* A display on which nothing is drawn yet.
BlankDisplay == [p \in 0..(W - 1) |-> LevelSlotInfo_Empty(p)]

\* LevelSelector::render, as far as the slots go.
LevelSelector_render(self) == draw_level_slots(BlankDisplay, window_slots(self))

\* LevelSelectorChange::render, as far as the slots go.
LevelSelectorChange_render(drawn, selector_change) ==
    draw_level_slots(drawn, selector_change.slots_change)

\* LevelRating::new not called.
NotRated == [state |-> "none", rating |-> 0]

\* LevelRating::new returned LevelRating(n).
Rated(n) == [state |-> "value", rating |-> n]

\* LevelRating::new panicked ("attempt to add with overflow").
Panicked == [state |-> "panic", rating |-> 0]

\* No rating is being computed on its own.
RatingIdle ==
    /\ par = 0
    /\ moves_taken = 0
    /\ overflow_checks = FALSE
    /\ rated = NotRated

\* No two statuses are being compared.
NotCompared == [done |-> FALSE, ordering |-> "-", equal |-> FALSE]

OrderIdle ==
    /\ lhs = LevelStatus_default
    /\ rhs = LevelStatus_default
    /\ compared = NotCompared

\* No call made on the LevelProgress.
NoCall ==
    [op |-> "none", level_idx |-> 0, new_status |-> LevelStatus_default,
     updated |-> FALSE, filter |-> "-", indices |-> <<>>]

\* LevelProgress::default(), nobody calling it.
ProgressIdle ==
    /\ level_statuses = <<>>
    /\ call = NoCall

\* No call made on the WindowVec under test.
NoWindowCall == [op |-> "none", direction |-> "-", position |-> WindowPosition_default,
                 change |-> "None"]

\* No WindowVec is under test.
WindowIdle ==
    /\ window = WindowVec_default
    /\ window_call = NoWindowCall

\* No level selector exists.
SelectorIdle ==
    /\ active_filter = Filter_default
    /\ level_indices_window = WindowVec_default
    /\ window_positions = [f \in Filter |-> None]

\* LevelRun::new on a level of the catalogue, in either build.
Init ==
    /\ RatingIdle
    /\ OrderIdle
    /\ ProgressIdle
    /\ WindowIdle
    /\ SelectorIdle
    /\ level \in DOMAIN LEVELS
    /\ std \in BOOLEAN
    /\ positions = starting_state(this_level)
    /\ move_stack = <<>>
    /\ active_piece = Piece_default
    /\ action = ActionOf("None", "-")
    /\ change = LevelRunChange_default
    /\ panicked = FALSE

\* LevelRun::execute_action on any Action
Next ==
    \/ \E direction \in Direction : attempt_move(direction)
    \/ change_active_piece
    \/ undo_move
    \/ restart

Spec == Init /\ [][Next]_vars

(***************************************************************************)
(* A run of the std build taken up after LongHistory moves: Level 5 with   *)
(* the first piece sent down and up again and again.  The same actions go  *)
(* on from there.                                                          *)
(***************************************************************************)
\* The direction of the Move that follows n moves of the idling player.
idle_direction(n) == IF n % 2 = 0 THEN "Down" ELSE "Up"

\* The idling player's two Moves from the starting positions, as
\* LevelRunState::attempt_move resolves them.
idle_down(lvl) == State_attempt_move(lvl, starting_state(lvl), Move_new(Piece_default, idle_direction(0)))

idle_up(lvl) == State_attempt_move(lvl, idle_down(lvl).positions, Move_new(Piece_default, idle_direction(1)))

\* positions and move_stack after n Moves of the idling player on a fresh
\* run: the second Move brings the starting positions back, so the slides
\* pushed are those two in turn.
idle_run(lvl, n) ==
    [positions |-> IF n % 2 = 0 THEN idle_up(lvl).positions ELSE idle_down(lvl).positions,
     move_stack |-> [i \in 1..n |-> IF i % 2 = 1 THEN unwrap(idle_down(lvl).slid)
                                                 ELSE unwrap(idle_up(lvl).slid)]]

InitLong ==
    \E run \in {idle_run(LEVELS[1], LongHistory)} :
        /\ idle_up(LEVELS[1]).positions = starting_state(LEVELS[1])
        /\ RatingIdle
        /\ OrderIdle
        /\ ProgressIdle
        /\ WindowIdle
        /\ SelectorIdle
        /\ level = 1
        /\ std = TRUE
        /\ positions = run.positions
        /\ move_stack = run.move_stack
        /\ active_piece = Piece_default
        /\ action = ActionOf("Move", idle_direction(LongHistory - 1))
        /\ change = [pieces_changed |->
                         Some([kind |-> "Slid",
                               piece_slid |-> last_slide(run.move_stack),
                               is_active |-> TRUE,
                               old_active_piece |-> None]),
                     num_moves_changed |-> Some(num_moves(run.move_stack)),
                     winning_status |-> winning_status(LEVELS[1], run.positions, run.move_stack),
                     at_max_moves |-> FALSE]
        /\ panicked = FALSE

SpecLong == InitLong /\ [][Next]_vars

(***************************************************************************)
(* LevelRating::new on its own: one call on any pair of u8 arguments, in   *)
(* a build with or without overflow checks.                                *)
(***************************************************************************)
\* No level is being run.
RunIdle ==
    /\ level = 1
    /\ std = FALSE
    /\ positions = starting_state(this_level)
    /\ move_stack = <<>>
    /\ active_piece = Piece_default
    /\ action = ActionOf("None", "-")
    /\ change = LevelRunChange_default
    /\ panicked = FALSE

InitRating ==
    /\ RunIdle
    /\ WindowIdle
    /\ SelectorIdle
    /\ OrderIdle
    /\ ProgressIdle
    /\ par \in 0..u8_MAX
    /\ moves_taken \in 0..u8_MAX
    /\ overflow_checks \in BOOLEAN
    /\ rated = NotRated

\* The call LevelRating::new(par, moves_taken).
rate ==
    /\ rated = NotRated
    /\ rated' = IF overflow_checks /\ LevelRating_new_overflows(par, moves_taken)
                THEN Panicked
                ELSE Rated(LevelRating_new(par, moves_taken))
    /\ UNCHANGED <<run_vars, order_vars, progress_vars, window_vars, selector_vars, par, moves_taken, overflow_checks>>

NextRating == rate

SpecRating == InitRating /\ [][NextRating]_vars

(***************************************************************************)
(* The comparison of two LevelStatus values on its own.                    *)
(***************************************************************************)
\* The star counts a LevelRating holds.
Ratings == 1..LevelRating_maximum_possible

\* Two move lists an Optimal status may record.
Solutions == {<<Move_new(PieceOrder[1], "Down"), Move_new(PieceOrder[2], "Left")>>,
              <<Move_new(PieceOrder[2], "Left")>>}

LevelStatuses ==
    {LevelStatus_Incomplete}
        \cup {LevelStatus_Complete(rating) : rating \in Ratings}
        \cup {LevelStatus_Optimal(moves) : moves \in Solutions}

InitOrder ==
    /\ RunIdle
    /\ WindowIdle
    /\ SelectorIdle
    /\ RatingIdle
    /\ ProgressIdle
    /\ lhs \in LevelStatuses
    /\ rhs \in LevelStatuses
    /\ compared = NotCompared

\* lhs.cmp(&rhs) and lhs == rhs
compare ==
    /\ ~compared.done
    /\ compared' = [done |-> TRUE,
                    ordering |-> LevelStatus_cmp(lhs, rhs),
                    equal |-> LevelStatus_eq(lhs, rhs)]
    /\ UNCHANGED <<run_vars, rating_vars, progress_vars, window_vars, selector_vars, lhs, rhs>>

NextOrder == compare

SpecOrder == InitOrder /\ [][NextOrder]_vars

(***************************************************************************)
(* LevelProgress: status updates of unlocked levels and filtered listings, *)
(* from the empty progress.                                                *)
(***************************************************************************)
\* The statuses handed to attempt_status_update: a run's winning status
\* (Complete with fewer than five stars, or Optimal) or Incomplete.
NewStatuses ==
    {LevelStatus_Incomplete, LevelStatus_Complete(1), LevelStatus_Complete(4)}
        \cup {LevelStatus_Optimal(moves) : moves \in Solutions}

InitProgress ==
    /\ RunIdle
    /\ WindowIdle
    /\ SelectorIdle
    /\ RatingIdle
    /\ OrderIdle
    /\ ProgressIdle

\* LevelProgress::attempt_status_update
attempt_status_update(level_idx, new_status) ==
    \E grown \in {extended(level_statuses, level_idx)} :
        LET better == LevelStatus_gt(new_status, grown[level_idx + 1])
        IN  /\ level_statuses' = IF better
                                 THEN [grown EXCEPT ![level_idx + 1] = new_status]
                                 ELSE grown
            /\ call' = [NoCall EXCEPT !.op = "attempt_status_update",
                                      !.level_idx = level_idx,
                                      !.new_status = new_status,
                                      !.updated = better]
            /\ UNCHANGED <<run_vars, rating_vars, order_vars, window_vars, selector_vars>>

\* A call of LevelProgress::filtered_indices, its iterator collected.
call_filtered_indices(filter) ==
    /\ call' = [NoCall EXCEPT !.op = "filtered_indices",
                              !.filter = filter,
                              !.indices = filtered_indices(level_statuses, filter)]
    /\ UNCHANGED <<run_vars, rating_vars, order_vars, window_vars, selector_vars, level_statuses>>

\* The level updated is one the selector lists, so an unlocked one.
NextProgress ==
    \/ \E level_idx \in 0..(NUM_LEVELS - 1), new_status \in NewStatuses :
           /\ level_idx < num_unlocked_levels(level_statuses)
           /\ attempt_status_update(level_idx, new_status)
    \/ \E filter \in Filter : call_filtered_indices(filter)

SpecProgress == InitProgress /\ [][NextProgress]_vars

(***************************************************************************)
(* A WindowVec on its own, as tests::window_vec drives it: refilled and    *)
(* positioned at will, its cursor moved and its window paged.              *)
(***************************************************************************)
\* The lists a refill takes: the first n of the even numbers, for every n
\* up to the capacity.
Refills == {[i \in 1..n |-> 2 * i] : n \in 0..WindowCapacity}

\* The positions a caller may ask for, some of them past every list.
AskedPositions ==
    {WindowPosition_new(top_idx, cursor_idx) :
        top_idx \in 0..(WindowCapacity + 1), cursor_idx \in 0..(WindowCapacity + 1)}

\* A call on the WindowVec and the WindowChange it returned.
WindowCall(op, direction, p, window_change) ==
    [op |-> op, direction |-> direction, position |-> p, change |-> window_change]

InitWindow ==
    /\ RunIdle
    /\ RatingIdle
    /\ OrderIdle
    /\ ProgressIdle
    /\ SelectorIdle
    /\ window = WindowVec_default
    /\ window_call = NoWindowCall

\* window.refill(items, &p)
window_refill(items, p) ==
    /\ window' = refill(window, items, p)
    /\ window_call' = WindowCall("refill", "-", p, "None")
    /\ UNCHANGED <<run_vars, rating_vars, order_vars, progress_vars, selector_vars>>

\* window.set_position(&p)
window_set_position(p) ==
    /\ \E r \in {set_position(window, p)} :
           /\ window' = r.window
           /\ window_call' = WindowCall("set_position", "-", p, r.change)
    /\ UNCHANGED <<run_vars, rating_vars, order_vars, progress_vars, selector_vars>>

\* window.move_cursor(direction)
window_move_cursor(direction) ==
    /\ \E r \in {move_cursor(window, direction)} :
           /\ window' = r.window
           /\ window_call' = WindowCall("move_cursor", direction, WindowPosition_default, r.change)
    /\ UNCHANGED <<run_vars, rating_vars, order_vars, progress_vars, selector_vars>>

\* window.page_window(direction)
window_page_window(direction) ==
    /\ \E r \in {page_window(window, direction)} :
           /\ window' = r.window
           /\ window_call' = WindowCall("page_window", direction, WindowPosition_default, r.change)
    /\ UNCHANGED <<run_vars, rating_vars, order_vars, progress_vars, selector_vars>>

NextWindow ==
    \/ \E items \in Refills, p \in AskedPositions : window_refill(items, p)
    \/ \E p \in AskedPositions : window_set_position(p)
    \/ \E direction \in SelectDirection : window_move_cursor(direction)
    \/ \E direction \in SelectDirection : window_page_window(direction)

SpecWindow == InitWindow /\ [][NextWindow]_vars

(***************************************************************************)
(* The level selector from a fresh progress store.  Every action is one    *)
(* call of LevelSelector::execute_action; what the call returns is the     *)
(* `change` of the operator that stands for its Action.                    *)
(***************************************************************************)
\* The statuses a finished run hands over, one of each kind:
\* LevelRun::winning_status never makes Incomplete.
WinningStatuses ==
    {LevelStatus_Complete(1), LevelStatus_Optimal(<<Move_new(PieceOrder[2], "Left")>>)}

\* The selector the variables hold.
selector ==
    [level_statuses |-> level_statuses,
     active_filter |-> active_filter,
     level_indices_window |-> level_indices_window,
     window_positions |-> window_positions]

InitSelector ==
    \E new \in {LevelSelector_new(<<>>)} :
        /\ RunIdle
        /\ RatingIdle
        /\ OrderIdle
        /\ WindowIdle
        /\ call = NoCall
        /\ level_statuses = new.level_statuses
        /\ active_filter = new.active_filter
        /\ level_indices_window = new.level_indices_window
        /\ window_positions = new.window_positions

\* What every action does with the outcome of execute_action: the
\* selector is as the call left it.
executed(outcome) ==
    /\ level_statuses' = outcome.selector.level_statuses
    /\ active_filter' = outcome.selector.active_filter
    /\ level_indices_window' = outcome.selector.level_indices_window
    /\ window_positions' = outcome.selector.window_positions
    /\ UNCHANGED <<run_vars, rating_vars, order_vars, window_vars, call>>

change_active_level(dir) ==
    \E outcome \in {ChangeActiveLevel(selector, dir)} :
        executed(outcome)

change_page(dir) ==
    \E outcome \in {ChangePage(selector, dir)} :
        executed(outcome)

change_active_filter(dir) ==
    \E outcome \in {ChangeActiveFilter(selector, dir)} :
        executed(outcome)

active_level_completed(new_status) ==
    \E outcome \in {ActiveLevelCompleted(selector, new_status)} :
        executed(outcome)

NextSelector ==
    \/ \E dir \in SelectDirection : change_active_level(dir)
    \/ \E dir \in SelectDirection : change_page(dir)
    \/ \E dir \in SelectDirection : change_active_filter(dir)
    \/ \E new_status \in WinningStatuses : active_level_completed(new_status)

SpecSelector == InitSelector /\ [][NextSelector]_vars

(***************************************************************************)
(* The level selector over a progress store that stays as it is: the       *)
(* selector is made on a store that earlier completions have left, and     *)
(* from then on the player only moves the cursor, pages and changes the    *)
(* filter.                                                                 *)
(***************************************************************************)
\* The statuses a level is stored with once runs have been handed over.
StoredStatuses == {LevelStatus_Incomplete} \cup WinningStatuses

\* The indices, counted from 1, of the completed levels of a store.
Completed(statuses) == {i \in 1..Len(statuses) : LevelStatus_is_complete(statuses[i])}

\* The stores that completions of selected levels lead to from the empty
\* one: every completed level was unlocked by the completed levels before
\* it, and the array ends with the last level completed.
Attainable(statuses) ==
    /\ statuses # <<>> => LevelStatus_is_complete(statuses[Len(statuses)])
    /\ \A i \in Completed(statuses) :
           i - 1 < Cardinality({j \in Completed(statuses) : j < i}) + UNLOCKED_AHEAD

\* All arrays of stored statuses of length n.
StatusArrays(n) == [1..n -> StoredStatuses]

InitBrowse ==
    \E n \in 0..NUM_LEVELS :
        \E statuses \in {s \in StatusArrays(n) : Attainable(s)} :
            \E new \in {LevelSelector_new(statuses)} :
                /\ RunIdle
                /\ RatingIdle
                /\ OrderIdle
                /\ WindowIdle
                /\ call = NoCall
                /\ level_statuses = new.level_statuses
                /\ active_filter = new.active_filter
                /\ level_indices_window = new.level_indices_window
                /\ window_positions = new.window_positions

NextBrowse ==
    \/ \E dir \in SelectDirection : change_active_level(dir)
    \/ \E dir \in SelectDirection : change_page(dir)
    \/ \E dir \in SelectDirection : change_active_filter(dir)

SpecBrowse == InitBrowse /\ [][NextBrowse]_vars

(***************************************************************************)
(* Vocabulary of the properties, stated on the grid rather than by the     *)
(* engine's own loop.                                                      *)
(***************************************************************************)
\* The cell k steps from `start` in direction d.
Cell(start, d, k) == Vector_add(start, Vector_mul(as_vector(d), k))

InGrid(lvl, cell) ==
    /\ cell.x \in 0..(lvl.size.x - 1)
    /\ cell.y \in 0..(lvl.size.y - 1)

\* A cell a piece may enter: Free or Goal terrain with no piece on it.
Enterable(lvl, pos, cell) ==
    /\ InGrid(lvl, cell)
    /\ get_space(lvl, cell).kind \in {"Free", "Goal"}
    /\ \A piece \in DOMAIN pos : pos[piece] # cell

\* The largest k such that the cells 1..k steps away are all enterable.
MaxRun(lvl, pos, piece, d) ==
    LET reach == lvl.size.x + lvl.size.y
    IN  CHOOSE k \in 0..reach :
            /\ \A j \in 1..k : Enterable(lvl, pos, Cell(pos[piece], d, j))
            /\ ~Enterable(lvl, pos, Cell(pos[piece], d, k + 1))

CanSlide(lvl, pos, piece, d) == Enterable(lvl, pos, Cell(pos[piece], d, 1))

\* The last call was a Move that slid a piece.
MoveSucceeded == action.kind = "Move" /\ is_some(change.pieces_changed)

\* The slide the last change reports.
ReportedSlide == unwrap(change.pieces_changed).piece_slid

\* The history is at capacity (only the bounded, non-std stack has one).
AtCapacity == ~std /\ Len(move_stack) = MAX_MOVES

NothingReported(c) ==
    /\ c.pieces_changed = None
    /\ c.num_moves_changed = None
    /\ c.winning_status = None

(***************************************************************************)
(* C1.  Slide monotonicity: in every reachable state, for every piece and  *)
(* direction, LevelRunState::attempt_move slides the piece by the maximum  *)
(* d >= 0 such that the d cells ahead are Free/Goal and unoccupied, leaves *)
(* the other pieces alone, and with d = 0 changes nothing and returns no   *)
(* slide.                                                                  *)
(***************************************************************************)
C1_SlideMonotonicity ==
    \A piece \in Pieces(this_level), d \in Direction :
        LET r == State_attempt_move(this_level, positions, Move_new(piece, d))
            k == MaxRun(this_level, positions, piece, d)
        IN  /\ r.positions = [positions EXCEPT ![piece] = Cell(positions[piece], d, k)]
            /\ k = 0 => r.slid = None /\ r.positions = positions
            /\ k > 0 => is_some(r.slid) /\ slide_distance(unwrap(r.slid)) = k

\* A Move has just slid a piece two cells or more up to another piece,
\* while some piece cannot slide at all in some direction.
C1_Witness ==
    /\ MoveSucceeded
    /\ slide_distance(ReportedSlide) >= 2
    /\ \E piece \in Pieces(this_level) :
           piece # ReportedSlide.muv.piece
           /\ positions[piece] = Cell(positions[ReportedSlide.muv.piece],
                                      ReportedSlide.muv.direction, 1)
    /\ \E piece \in Pieces(this_level), d \in Direction :
           MaxRun(this_level, positions, piece, d) = 0

(***************************************************************************)
(* C2.  Undo inverts exactly: whenever a Move slides a piece, what         *)
(* undo_move then makes of the state (teleporting the piece of the last    *)
(* entry to that entry's starting position and popping the entry) is the   *)
(* position of every piece and the history of just before that Move.       *)
(***************************************************************************)
C2_UndoInverts ==
    [][MoveSucceeded' =>
          /\ undone_positions(positions', move_stack') = positions
          /\ popped(move_stack') = move_stack]_vars

\* An UndoMove has just taken back a slide of two cells or more to the left
\* or upwards, with older moves still in the history.
C2_Witness ==
    /\ action.kind = "UndoMove"
    /\ is_some(change.pieces_changed)
    /\ ReportedSlide.muv.direction \in {"Right", "Down"}
    /\ slide_distance(ReportedSlide) >= 2
    /\ Len(move_stack) >= 2

(***************************************************************************)
(* C3.  A Move attempted with the history at capacity, in a direction in   *)
(* which some piece can slide, leaves positions and history unchanged,     *)
(* reports at_max_moves, and reports no slide, no move count and no        *)
(* winning status.                                                         *)
(***************************************************************************)
C3_RejectedAtCapacity ==
    [][(/\ action'.kind = "Move"
        /\ AtCapacity
        /\ \E piece \in Pieces(this_level) :
               CanSlide(this_level, positions, piece, action'.direction))
       => /\ positions' = positions
          /\ move_stack' = move_stack
          /\ change'.at_max_moves
          /\ NothingReported(change')]_vars

\* A Move has just been rejected at capacity although a piece could slide.
C3_Witness ==
    /\ action.kind = "Move"
    /\ AtCapacity
    /\ change.at_max_moves
    /\ NothingReported(change)
    /\ \E piece \in Pieces(this_level) :
           CanSlide(this_level, positions, piece, action.direction)

(***************************************************************************)
(* C4.  A Move rejected because the history is at capacity leaves the      *)
(* active piece unchanged, also when the active piece is blocked and       *)
(* another piece could slide.                                              *)
(***************************************************************************)
C4_RejectedAsAWhole ==
    [][(/\ action'.kind = "Move"
        /\ AtCapacity
        /\ \E piece \in Pieces(this_level) :
               CanSlide(this_level, positions, piece, action'.direction))
       => active_piece' = active_piece]_vars

(***************************************************************************)
(* C5.  Cascade.  A Move in a direction in which the active piece cannot   *)
(* slide while some other piece can: the first such piece in piece order   *)
(* becomes the active piece and is the only piece that moves, sliding as   *)
(* far as it can on the pre-move positions, and the change reports its     *)
(* slide with an old-active-piece entry of the previous active piece at    *)
(* its unchanged position.  A Move in a direction in which the active      *)
(* piece can slide keeps it active, moves no other piece and reports no    *)
(* old-active-piece entry.                                                 *)
(***************************************************************************)
\* The first piece other than `active`, in piece order, that can slide.
FirstOther(lvl, pos, active, d) ==
    CHOOSE piece \in Pieces(lvl) \ {active} :
        /\ CanSlide(lvl, pos, piece, d)
        /\ \A q \in Pieces(lvl) \ {active} :
               CanSlide(lvl, pos, q, d) => Piece_as_u8(piece) <= Piece_as_u8(q)

\* The active piece is blocked in direction d and another piece is not.
CascadeCase(d) ==
    /\ ~CanSlide(this_level, positions, active_piece, d)
    /\ \E piece \in Pieces(this_level) \ {active_piece} :
           CanSlide(this_level, positions, piece, d)

\* The step of a cascading Move in direction d, as C5 describes it.
CascadeStep(d) ==
    LET first == FirstOther(this_level, positions, active_piece, d)
    IN  /\ active_piece' = first
        /\ positions' = [positions EXCEPT ![first] =
               Cell(positions[first], d, MaxRun(this_level, positions, first, d))]
        /\ is_some(change'.pieces_changed)
        /\ unwrap(change'.pieces_changed).kind = "Slid"
        /\ unwrap(change'.pieces_changed).piece_slid.muv = Move_new(first, d)
        /\ unwrap(change'.pieces_changed).old_active_piece =
               Some([piece |-> active_piece, position |-> positions[active_piece]])

\* The step of a Move of the active piece itself, as C5 describes it.
DirectStep(d) ==
    /\ active_piece' = active_piece
    /\ \A piece \in Pieces(this_level) \ {active_piece} :
           positions'[piece] = positions[piece]
    /\ is_some(change'.pieces_changed) =>
           /\ unwrap(change'.pieces_changed).piece_slid.muv = Move_new(active_piece, d)
           /\ unwrap(change'.pieces_changed).old_active_piece = None

\* C5 as stated: the cascade and its report at any history length.
C5_CascadeAtAnyLength ==
    [][action'.kind = "Move" =>
          /\ CascadeCase(action'.direction) => CascadeStep(action'.direction)
          /\ CanSlide(this_level, positions, active_piece, action'.direction)
                 => DirectStep(action'.direction)]_vars

\* C5 with the cascade and its report taken below capacity only.
C5_CascadeBelowCapacity ==
    [][action'.kind = "Move" =>
          /\ (CascadeCase(action'.direction) /\ ~AtCapacity)
                 => CascadeStep(action'.direction)
          /\ CanSlide(this_level, positions, active_piece, action'.direction)
                 => DirectStep(action'.direction)]_vars

\* A Move has just cascaded past a blocked piece to a later one: the piece
\* that slid is not the first of the other pieces, which is still blocked.
C5_Witness ==
    /\ MoveSucceeded
    /\ is_some(unwrap(change.pieces_changed).old_active_piece)
    /\ active_piece = ReportedSlide.muv.piece
    /\ \E piece \in Pieces(this_level) :
           /\ piece # unwrap(unwrap(change.pieces_changed).old_active_piece).piece
           /\ Piece_as_u8(piece) < Piece_as_u8(active_piece)

(***************************************************************************)
(* C6.  Win requires alignment: a Move that slid a piece reports a winning *)
(* status if and only if afterwards every piece of the level is on the     *)
(* Goal cell of that piece.                                                *)
(***************************************************************************)
\* The cell of the level whose terrain is Goal(piece).
goal_cell(lvl, piece) ==
    CHOOSE cell \in all_positions(lvl) : get_space(lvl, cell) = Goal(piece)

Aligned(lvl, pos) == \A piece \in Pieces(lvl) : pos[piece] = goal_cell(lvl, piece)

C6_WinRequiresAlignment ==
    MoveSucceeded =>
        (is_some(change.winning_status) <=> Aligned(this_level, positions))

\* A Move has just reported a winning status.
C6_Witness == MoveSucceeded /\ is_some(change.winning_status)

(***************************************************************************)
(* C7.  A winning status is reported only by a Move that slid a piece:     *)
(* never by UndoMove, Restart, ChangeActivePiece, a blocked Move or a      *)
(* Move rejected at capacity, even when the pieces stand aligned.          *)
(***************************************************************************)
C7_WinOnlyBySuccessfulMove ==
    is_some(change.winning_status) => MoveSucceeded

\* The pieces stand aligned and the last action, a ChangeActivePiece,
\* reported no winning status.
C7_Witness ==
    /\ Aligned(this_level, positions)
    /\ action.kind = "ChangeActivePiece"
    /\ change.winning_status = None

(***************************************************************************)
(* C8.  No piece ever occupies, or has slid across, a Void or Wall cell:   *)
(* every position, and every cell of every slide in the history, is Free   *)
(* or Goal terrain.                                                        *)
(***************************************************************************)
\* The cells a slide crossed, from its starting cell to its end.
CellsCrossed(slid) ==
    {Cell(starting_position(slid), slid.muv.direction, k) : k \in 0..slide_distance(slid)}

OnFloor(lvl, cell) == InGrid(lvl, cell) /\ get_space(lvl, cell).kind \in {"Free", "Goal"}

C8_NeverOnVoidOrWall ==
    /\ \A piece \in Pieces(this_level) : OnFloor(this_level, positions[piece])
    /\ \A i \in 1..Len(move_stack) :
           /\ \A cell \in CellsCrossed(move_stack[i]) : OnFloor(this_level, cell)
           /\ \A j \in 1..Len(move_stack[i].strip_spaces) :
                  move_stack[i].strip_spaces[j].kind \in {"Free", "Goal"}

\* In a level that has Void cells, a Move has just slid a piece up to a
\* wall, with three moves or more in the history.
C8_Witness ==
    /\ \E cell \in all_positions(this_level) : get_space(this_level, cell) = Void
    /\ MoveSucceeded
    /\ get_space(this_level, Cell(positions[ReportedSlide.muv.piece],
                                  ReportedSlide.muv.direction, 1)) = Wall
    /\ Len(move_stack) >= 3

(***************************************************************************)
(* C9.  Strip self-consistency: the PieceSlid a Move reports starts where  *)
(* its piece stood before the Move; its starting position plus direction   *)
(* times distance is the piece's position after the Move; the strip has    *)
(* distance + 1 cells with distance >= 1, distance being the number of     *)
(* cells travelled; and the strip holds the level's terrain of the cells   *)
(* from start to end in grid order, beginning at strip_top_left.           *)
(***************************************************************************)
\* Cells apart on the grid.
Apart(a, b) ==
    (IF a.x <= b.x THEN b.x - a.x ELSE a.x - b.x) + (IF a.y <= b.y THEN b.y - a.y ELSE a.y - b.y)

\* The i-th cell of a strip, in grid order from its top-left.
StripCell(slid, i) ==
    IF is_horizontal(slid.muv.direction)
    THEN Vector_new(slid.strip_top_left.x + (i - 1), slid.strip_top_left.y)
    ELSE Vector_new(slid.strip_top_left.x, slid.strip_top_left.y + (i - 1))

\* slid is consistent with its piece having gone from cell `from` to cell `to`.
StripConsistent(lvl, slid, from, to) ==
    /\ starting_position(slid) = from
    /\ Cell(starting_position(slid), slid.muv.direction, slide_distance(slid)) = to
    /\ Len(slid.strip_spaces) = Apart(from, to) + 1
    /\ Apart(from, to) >= 1
    /\ slide_distance(slid) = Apart(from, to)
    /\ slid.strip_top_left \in {from, to}
    /\ slid.strip_top_left.x <= from.x /\ slid.strip_top_left.x <= to.x
    /\ slid.strip_top_left.y <= from.y /\ slid.strip_top_left.y <= to.y
    /\ \A i \in 1..Len(slid.strip_spaces) :
           slid.strip_spaces[i] = get_space(lvl, StripCell(slid, i))

C9_StripSelfConsistent ==
    [][MoveSucceeded' =>
          /\ move_stack'[Len(move_stack')] = ReportedSlide'
          /\ StripConsistent(this_level, ReportedSlide',
                             positions[ReportedSlide'.muv.piece],
                             positions'[ReportedSlide'.muv.piece])]_vars

\* A Move has just slid a piece two cells or more to the left or upwards
\* across or onto a Goal cell.
C9_Witness ==
    /\ MoveSucceeded
    /\ ReportedSlide.muv.direction \in {"Left", "Up"}
    /\ slide_distance(ReportedSlide) >= 2
    /\ \E i \in 1..Len(ReportedSlide.strip_spaces) :
           ReportedSlide.strip_spaces[i].kind = "Goal"

(***************************************************************************)
(* C10.  A Move in a direction in which no piece can slide is a no-op:     *)
(* positions, history and active piece are unchanged and the change        *)
(* reports no piece change, no move count and no winning status.           *)
(***************************************************************************)
C10_BlockedMoveIsNoOp ==
    [][(/\ action'.kind = "Move"
        /\ \A piece \in Pieces(this_level) :
               ~CanSlide(this_level, positions, piece, action'.direction))
       => /\ positions' = positions
          /\ move_stack' = move_stack
          /\ active_piece' = active_piece
          /\ NothingReported(change')]_vars

\* After some moves, a Move in a direction in which no piece can slide has
\* just been made.
C10_Witness ==
    /\ action.kind = "Move"
    /\ \A piece \in Pieces(this_level) :
           ~CanSlide(this_level, positions, piece, action.direction)
    /\ NothingReported(change)
    /\ Len(move_stack) >= 2
    /\ active_piece # Piece_default

(***************************************************************************)
(* C11.  UndoMove with an empty history changes nothing and reports the    *)
(* empty change.  With a non-empty history it removes exactly the most     *)
(* recent entry, whichever piece it belonged to, reports the new move      *)
(* count, leaves the active piece as it was, and reports is_active true    *)
(* exactly when the piece of the undone entry is the active piece.         *)
(***************************************************************************)
C11_UndoMove ==
    [][action'.kind = "UndoMove" =>
          IF move_stack = <<>>
          THEN /\ positions' = positions
               /\ move_stack' = move_stack
               /\ active_piece' = active_piece
               /\ change' = LevelRunChange_default
          ELSE /\ move_stack' = SubSeq(move_stack, 1, Len(move_stack) - 1)
               /\ change'.num_moves_changed = Some(Len(move_stack) - 1)
               /\ active_piece' = active_piece
               /\ is_some(change'.pieces_changed)
               /\ unwrap(change'.pieces_changed).is_active
                      = (move_stack[Len(move_stack)].muv.piece = active_piece)]_vars

(***************************************************************************)
(* C12.  Restart with an empty history leaves positions, history and       *)
(* active piece unchanged and reports the empty change.  With a non-empty  *)
(* history it leaves the history empty, every piece at its starting        *)
(* position in the level, and the first piece of the piece order active.   *)
(***************************************************************************)
C12_Restart ==
    [][action'.kind = "Restart" =>
          IF move_stack = <<>>
          THEN /\ positions' = positions
               /\ move_stack' = move_stack
               /\ active_piece' = active_piece
               /\ change' = LevelRunChange_default
          ELSE /\ Len(move_stack') = 0
               /\ \A piece \in Pieces(this_level) :
                      positions'[piece] = this_level.starting_positions[Piece_as_u8(piece) + 1]
               /\ active_piece' = PieceOrder[1]]_vars

\* A Restart has just put exactly one piece back on its starting position,
\* and that piece is not the first of the piece order.
C12_Witness ==
    /\ action.kind = "Restart"
    /\ is_some(change.pieces_changed)
    /\ Cardinality({i \in 1..num_pieces(this_level) :
            LET m == unwrap(change.pieces_changed).moved[i]
            IN  m.from # m.to}) = 1
    /\ unwrap(change.pieces_changed).moved[1].from = unwrap(change.pieces_changed).moved[1].to

(***************************************************************************)
(* C13.  ChangeActivePiece always succeeds: it reports the new active      *)
(* piece, which is the next piece of the level in the piece order, the     *)
(* first one after the last; it leaves positions and history unchanged;    *)
(* and as many of them as the level has pieces lead back to the piece      *)
(* that was active.                                                        *)
(***************************************************************************)
\* The piece after `piece` among the first n of the piece order, cyclically.
NextInOrder(piece, n) ==
    LET i == CHOOSE j \in 1..n : PieceOrder[j] = piece
    IN  IF i = n THEN PieceOrder[1] ELSE PieceOrder[i + 1]

\* The piece k changes of the active piece lead to, as the engine computes each.
RECURSIVE AfterChanges(_, _, _)
AfterChanges(lvl, piece, k) ==
    IF k = 0 THEN piece
    ELSE AfterChanges(lvl, Piece_try_from((Piece_as_u8(piece) + 1) % num_pieces(lvl)), k - 1)

C13_ChangeActivePiece ==
    [][action'.kind = "ChangeActivePiece" =>
          /\ active_piece' = NextInOrder(active_piece, Len(this_level.starting_positions))
          /\ is_some(change'.pieces_changed)
          /\ unwrap(change'.pieces_changed).kind = "ActivePiece"
          /\ unwrap(change'.pieces_changed).active_piece = active_piece'
          /\ positions' = positions
          /\ move_stack' = move_stack
          /\ AfterChanges(this_level, active_piece', num_pieces(this_level) - 1) = active_piece]_vars

\* A ChangeActivePiece has just wrapped from the last of three pieces to the
\* first, with moves in the history.
C13_Witness ==
    /\ action.kind = "ChangeActivePiece"
    /\ num_pieces(this_level) = 3
    /\ active_piece = PieceOrder[1]
    /\ move_stack # <<>>

(***************************************************************************)
(* C14.  For every par and moves_taken of the 8-bit range, the call        *)
(* LevelRating::new(par, moves_taken) overflows nowhere and yields 5 if    *)
(* moves_taken <= par, 5 - (moves_taken - par) if par < moves_taken <=     *)
(* par + 4, and 1 otherwise.                                               *)
(***************************************************************************)
\* The rating the specification gives, on the integers.
StarsFor(goal, moves) ==
    IF moves <= goal THEN 5
    ELSE IF moves <= goal + 4 THEN 5 - (moves - goal)
    ELSE 1

C14_RatingOnAllOfU8 ==
    rated # NotRated =>
        /\ rated.state = "value"
        /\ rated.rating = StarsFor(par, moves_taken)

(***************************************************************************)
(* C15.  Whenever a Move reports a winning status: if the history is at    *)
(* most par long the status is Optimal and carries the moves of the whole  *)
(* history in order; otherwise it is Complete(rating) with rating =        *)
(* LevelRating::new(par, length of the history).                           *)
(***************************************************************************)
C15_WinningStatus ==
    (action.kind = "Move" /\ is_some(change.winning_status)) =>
        LET status == unwrap(change.winning_status)
            taken == Len(move_stack)
        IN  IF taken <= this_level.optimal_moves
            THEN /\ status.kind = "Optimal"
                 /\ Len(status.moves) = taken
                 /\ \A i \in 1..taken : status.moves[i] = move_stack[i].muv
            ELSE /\ status.kind = "Complete"
                 /\ status.rating = LevelRating_new(this_level.optimal_moves, taken)

(***************************************************************************)
(* C16.  An UndoMove that follows a Move which reported a winning status   *)
(* removes the last history entry and leaves a state that is not winning:  *)
(* some piece is off its goal cell.                                        *)
(***************************************************************************)
C16_UndoAfterWin ==
    [][(/\ action.kind = "Move"
        /\ is_some(change.winning_status)
        /\ action'.kind = "UndoMove")
       => /\ move_stack' = SubSeq(move_stack, 1, Len(move_stack) - 1)
          /\ ~is_winning(this_level, positions')
          /\ ~Aligned(this_level, positions')]_vars

\* An UndoMove has just taken back the slide that had won the level.
C16_Witness ==
    /\ action.kind = "UndoMove"
    /\ is_some(change.pieces_changed)
    /\ Aligned(this_level,
               [positions EXCEPT ![ReportedSlide.muv.piece] = starting_position(ReportedSlide)])

(***************************************************************************)
(* Vocabulary of the status claims: the place of a status in the order     *)
(* Incomplete < Complete(1) < ... < Complete(5) < Optimal, and the status  *)
(* a level has in a progress array, Incomplete while none is stored.       *)
(***************************************************************************)
Rank(status) ==
    IF status.kind = "Incomplete" THEN 0
    ELSE IF status.kind = "Complete" THEN status.rating
    ELSE LevelRating_maximum_possible + 1

StatusOf(statuses, idx) ==
    IF idx < Len(statuses) THEN statuses[idx + 1] ELSE LevelStatus_Incomplete

(***************************************************************************)
(* C17.  The comparison of two LevelStatus values is the total order       *)
(* Incomplete < Complete(r) < Optimal for every rating r, with Complete    *)
(* values ordered by rating and any two Optimal values equal whatever      *)
(* their move lists; == holds exactly when cmp is Equal.                   *)
(***************************************************************************)
C17_StatusOrder ==
    compared.done =>
        /\ compared.ordering = (IF Rank(lhs) < Rank(rhs) THEN "Less"
                                ELSE IF Rank(lhs) = Rank(rhs) THEN "Equal"
                                ELSE "Greater")
        /\ compared.equal <=> compared.ordering = "Equal"
        /\ (lhs.kind = "Optimal" /\ rhs.kind = "Optimal") => compared.equal

\* Two Optimal statuses with different move lists have been compared.
C17_Witness ==
    /\ compared.done
    /\ lhs.kind = "Optimal"
    /\ rhs.kind = "Optimal"
    /\ lhs.moves # rhs.moves
    /\ compared.ordering = "Equal"

(***************************************************************************)
(* C18.  attempt_status_update returns true exactly when the new status is *)
(* strictly greater than the status the level has, and then stores the new *)
(* status for it; otherwise the level keeps its status, and the array is   *)
(* left as it is when the level had an entry.  No call lowers the status   *)
(* of any level.                                                           *)
(***************************************************************************)
C18_ProgressMonotone ==
    [][call'.op = "attempt_status_update" =>
          LET old == StatusOf(level_statuses, call'.level_idx)
              greater == Rank(call'.new_status) > Rank(old)
          IN  /\ call'.updated <=> greater
              /\ greater => StatusOf(level_statuses', call'.level_idx) = call'.new_status
              /\ ~greater => StatusOf(level_statuses', call'.level_idx) = old
              /\ (~greater /\ call'.level_idx < Len(level_statuses))
                     => level_statuses' = level_statuses
              /\ \A idx \in 0..(NUM_LEVELS - 1) :
                     Rank(StatusOf(level_statuses', idx)) >= Rank(StatusOf(level_statuses, idx))]_vars

\* The last call offered an Optimal status, with another move list, to a
\* level that is stored as Optimal, and returned false; an earlier level is
\* stored with a Complete status.
C18_Witness ==
    /\ call.op = "attempt_status_update"
    /\ ~call.updated
    /\ call.new_status.kind = "Optimal"
    /\ StatusOf(level_statuses, call.level_idx).kind = "Optimal"
    /\ StatusOf(level_statuses, call.level_idx).moves # call.new_status.moves
    /\ \E idx \in 0..(call.level_idx - 1) : StatusOf(level_statuses, idx).kind = "Complete"

(***************************************************************************)
(* C19.  No call makes the progress array shorter.  An update for a level  *)
(* index at or beyond the length of the array makes it index + 1 long,     *)
(* with Incomplete in every new entry before the one of that level, and    *)
(* leaves the entries that were stored as they were.                       *)
(***************************************************************************)
C19_ProgressGrows ==
    [][/\ Len(level_statuses') >= Len(level_statuses)
       /\ (call'.op = "attempt_status_update" /\ call'.level_idx >= Len(level_statuses))
              => /\ Len(level_statuses') = call'.level_idx + 1
                 /\ \A i \in (Len(level_statuses) + 1)..call'.level_idx :
                        level_statuses'[i] = LevelStatus_Incomplete
                 /\ \A i \in 1..Len(level_statuses) :
                        level_statuses'[i] = level_statuses[i]]_vars

\* The array ends with a level whose status the last call stored, after a
\* level that has an entry but no status other than Incomplete, and begins
\* with a completed level.
C19_Witness ==
    /\ call.op = "attempt_status_update"
    /\ call.updated
    /\ Len(level_statuses) = call.level_idx + 1
    /\ call.level_idx >= 2
    /\ level_statuses[call.level_idx].kind = "Incomplete"
    /\ level_statuses[1].kind # "Incomplete"

(***************************************************************************)
(* C20.  What filtered_indices yields for a filter is, in increasing       *)
(* order, exactly the level indices below min(NUM_LEVELS, completed +      *)
(* UNLOCKED_AHEAD) whose status, Incomplete when none is stored, passes    *)
(* the filter, completed being the number of stored statuses that are      *)
(* Complete or Optimal.                                                    *)
(***************************************************************************)
\* The filters' predicates as the specification words them.
Passes(filter, status) ==
    LET complete == status.kind # "Incomplete"
        optimal == status.kind = "Optimal"
                       \/ (status.kind = "Complete" /\ status.rating = LevelRating_maximum_possible)
    IN  \/ filter = "All"
        \/ filter = "Incomplete" /\ ~complete
        \/ filter = "PartiallyComplete" /\ complete /\ ~optimal
        \/ filter = "Optimal" /\ optimal

Unlocked(statuses) ==
    LET completed == Cardinality({i \in 1..Len(statuses) : statuses[i].kind # "Incomplete"})
    IN  IF completed + UNLOCKED_AHEAD < NUM_LEVELS THEN completed + UNLOCKED_AHEAD ELSE NUM_LEVELS

C20_UnlockGating ==
    call.op = "filtered_indices" =>
        /\ \A i \in 1..(Len(call.indices) - 1) : call.indices[i] < call.indices[i + 1]
        /\ {call.indices[i] : i \in 1..Len(call.indices)}
               = {idx \in 0..(Unlocked(level_statuses) - 1) :
                      Passes(call.filter, StatusOf(level_statuses, idx))}

\* A listing of the incomplete levels while some level is still locked: it
\* holds a level that has no entry yet and leaves out a completed one.
C20_Witness ==
    /\ call.op = "filtered_indices"
    /\ call.filter = "Incomplete"
    /\ Unlocked(level_statuses) < NUM_LEVELS
    /\ \E i \in 1..Len(call.indices) : call.indices[i] >= Len(level_statuses)
    /\ \E idx \in 0..(Unlocked(level_statuses) - 1) :
           \A i \in 1..Len(call.indices) : call.indices[i] # idx

(***************************************************************************)
(* Vocabulary of the window properties.                                    *)
(***************************************************************************)
\* Number of items of the list under a window.
ListLen(w) == Len(w.vec)

\* Top and cursor of a non-empty window are indices of the list, and the
\* cursor is one of the W items from the top on.
InWindow(w) ==
    w.vec # <<>> =>
        /\ w.position.top_idx <= w.position.cursor_idx
        /\ w.position.cursor_idx <= w.position.top_idx + W - 1
        /\ w.position.top_idx \in 0..(ListLen(w) - 1)
        /\ w.position.cursor_idx \in 0..(ListLen(w) - 1)

\* The last index a window of W items can have as its top on the list of w.
LastTop(w) == Max2(ListLen(w) - W, 0)

(***************************************************************************)
(* C21.  Window invariant: whenever the list is non-empty, top <= cursor   *)
(* <= top + W - 1 and both top and cursor lie within [0, len - 1], after   *)
(* any sequence of refill, set_position, move_cursor and page_window with  *)
(* any lists and any asked positions, and so in the window of a selector.  *)
(***************************************************************************)
C21_WindowInvariant == InWindow(window) /\ InWindow(level_indices_window)

\* A set_position that asked for a top and a cursor past the end of a list
\* longer than the window, and got the last window with the cursor on the
\* last item.
C21_Witness ==
    /\ window_call.op = "set_position"
    /\ ListLen(window) > W
    /\ window_call.position.top_idx >= ListLen(window)
    /\ window_call.position.cursor_idx >= ListLen(window)
    /\ window.position = WindowPosition_new(ListLen(window) - W, ListLen(window) - 1)

(***************************************************************************)
(* C22.  move_cursor on a non-empty list steps the cursor by exactly one,  *)
(* and by zero at the first item going back and at the last going on.  The *)
(* top stays while the new cursor is within [top, top + W - 1], and then   *)
(* CursorOnly is returned; it shifts by exactly one in the direction of    *)
(* travel when the cursor would leave the window, and then Window is       *)
(* returned; at either end nothing changes and None is returned.           *)
(***************************************************************************)
C22_MoveCursor ==
    [][(window_call'.op = "move_cursor" /\ window.vec # <<>>) =>
          LET old == window.position
              new == window'.position
              forward == window_call'.direction = "Next"
              at_end == IF forward THEN old.cursor_idx = ListLen(window) - 1
                                   ELSE old.cursor_idx = 0
              stepped == IF forward THEN old.cursor_idx + 1 ELSE old.cursor_idx - 1
              inside == stepped >= old.top_idx /\ stepped <= old.top_idx + W - 1
          IN  /\ window'.vec = window.vec
              /\ at_end => new = old /\ window_call'.change = "None"
              /\ (~at_end /\ inside) =>
                     /\ new = WindowPosition_new(old.top_idx, stepped)
                     /\ window_call'.change = "CursorOnly"
              /\ (~at_end /\ ~inside) =>
                     /\ new = WindowPosition_new(IF forward THEN old.top_idx + 1
                                                            ELSE old.top_idx - 1,
                                                 stepped)
                     /\ window_call'.change = "Window"]_vars

\* A move_cursor onward that shifted the window off the top of the list.
C22_Witness ==
    /\ window_call.op = "move_cursor"
    /\ window_call.direction = "Next"
    /\ window_call.change = "Window"
    /\ window.position.top_idx >= 1
    /\ window.position.cursor_idx = window.position.top_idx + W - 1

(***************************************************************************)
(* C23.  page_window on a non-empty list shifts the top by W clipped to    *)
(* the valid range [0, max(len - W, 0)].  As first stated: the cursor      *)
(* keeps its offset inside the window in every page operation.             *)
(***************************************************************************)
C23_OffsetKeptByEveryPage ==
    [][(window_call'.op = "page_window" /\ window.vec # <<>>) =>
          /\ window'.position.top_idx =
                 IF window_call'.direction = "Next"
                 THEN Min2(window.position.top_idx + W, LastTop(window))
                 ELSE Max2(window.position.top_idx - W, 0)
          /\ cursor_window_idx(window'.position) = cursor_window_idx(window.position)]_vars

(***************************************************************************)
(* C23, amended.  page_window on a non-empty list shifts the top by W      *)
(* clipped to the valid range.  When the top moves, by W or by less, the   *)
(* cursor moves by the same amount and keeps its offset inside the window. *)
(* When the top cannot move at all, the cursor goes to the first item of   *)
(* the list (paging back) or to its last item (paging on).  The change     *)
(* returned is Window, CursorOnly or None as top, cursor or neither moved. *)
(***************************************************************************)
C23_PageWindow ==
    [][(window_call'.op = "page_window" /\ window.vec # <<>>) =>
          LET old == window.position
              new == window'.position
              forward == window_call'.direction = "Next"
          IN  /\ window'.vec = window.vec
              /\ new.top_idx = IF forward
                               THEN Min2(old.top_idx + W, LastTop(window))
                               ELSE Max2(old.top_idx - W, 0)
              /\ new.top_idx # old.top_idx =>
                     cursor_window_idx(new) = cursor_window_idx(old)
              /\ new.top_idx = old.top_idx =>
                     new.cursor_idx = IF forward THEN ListLen(window) - 1 ELSE 0
              /\ window_call'.change = WindowChange_compare(old, new)]_vars

\* A page onward that could shift the window by less than W only, with the
\* cursor off the top of the window.
C23_Witness ==
    /\ window_call.op = "page_window"
    /\ window_call.direction = "Next"
    /\ window_call.change = "Window"
    /\ window.position.top_idx < W
    /\ window.position.top_idx = LastTop(window)
    /\ window.position.cursor_idx > window.position.top_idx

(***************************************************************************)
(* Vocabulary of the selector properties.                                  *)
(***************************************************************************)
\* The position of the selector's window, None on an empty list.
Shown == WindowVec_position(level_indices_window)

\* The filtered list of a filter on the store as it is.
ListOf(filter) == filtered_indices(level_statuses, filter)

(***************************************************************************)
(* C24.  Switching filters is non-destructive while the progress store     *)
(* stays as it is: in every step, the filter that is left is remembered    *)
(* with exactly the top and cursor it has at that moment; the position     *)
(* remembered for a filter that is not active is left alone by every       *)
(* cursor move, paging and change between other filters; and the filter    *)
(* that becomes active comes back with exactly the top and cursor          *)
(* remembered for it.  So a filter with a non-empty list that is left and  *)
(* returned to, after any number of steps under other filters, shows the   *)
(* top and cursor it had when it was left.                                 *)
(***************************************************************************)
C24_FilterSwitchRestores ==
    [][/\ level_statuses' = level_statuses
       /\ \A f \in Filter :
              f # active_filter' =>
                  window_positions'[f] = IF f = active_filter THEN Shown
                                         ELSE window_positions[f]
       /\ (active_filter' # active_filter /\ is_some(window_positions[active_filter'])) =>
              /\ ListOf(active_filter') # <<>>
              /\ Shown' = window_positions[active_filter']]_vars

\* The All filter shows a window off the top of its list with the cursor
\* off the top of the window, while the Optimal filter, which is entered
\* only by leaving All, is remembered with its cursor moved.
C24_Witness ==
    /\ active_filter = "All"
    /\ is_some(Shown)
    /\ unwrap(Shown).top_idx >= 1
    /\ unwrap(Shown).cursor_idx > unwrap(Shown).top_idx
    /\ is_some(window_positions["Optimal"])
    /\ unwrap(window_positions["Optimal"]).cursor_idx >= 1

\* What execute_action comes to when it does nothing: the selector as it
\* was and no change returned.
NoChange == [selector |-> selector, change |-> None]

(***************************************************************************)
(* C25.  While the filtered list of the active filter is empty there is no *)
(* window position, no cursor item, no active level info and no active     *)
(* rating, and ChangeActiveLevel, ChangePage (in either direction) and     *)
(* ActiveLevelCompleted (with any status) return no change and leave the   *)
(* progress store and the selector as they are.                            *)
(***************************************************************************)
C25_NothingSelected ==
    ListOf(active_filter) = <<>> =>
        /\ level_indices_window.vec = <<>>
        /\ Shown = None
        /\ cursor_item(level_indices_window) = None
        /\ active_level_info(selector) = None
        /\ active_rating(selector) = None
        /\ \A dir \in SelectDirection :
               /\ ChangeActiveLevel(selector, dir) = NoChange
               /\ ChangePage(selector, dir) = NoChange
        /\ \A new_status \in WinningStatuses \cup {LevelStatus_Incomplete} :
               ActiveLevelCompleted(selector, new_status) = NoChange

\* A filter with an empty list became active while the window was off the
\* top of another list: the window still stores that position and shows
\* none.
C25_Witness ==
    /\ ListOf(active_filter) = <<>>
    /\ level_indices_window.position.top_idx >= 1
    /\ level_indices_window.position.cursor_idx > level_indices_window.position.top_idx

(***************************************************************************)
(* C26.  ActiveLevelCompleted(status) on a selected level: if the status   *)
(* is strictly better than the one stored for that level, the stored       *)
(* status of that level becomes it and no other level's status changes,    *)
(* the window lists the levels of the current filter on the new store,     *)
(* the filter stays, and the change returned reports the new count of      *)
(* locked levels; if it is not better, no change is returned and the       *)
(* status stored for every level, the filtered list, the window position,  *)
(* the remembered positions and the unlock count are as they were (the     *)
(* array itself too when the selected level had an entry in it).           *)
(***************************************************************************)
C26_ActiveLevelCompleted ==
    is_some(active_level_idx(selector)) =>
        \A new_status \in WinningStatuses \cup {LevelStatus_Incomplete} :
            LET selected == unwrap(active_level_idx(selector))
                outcome == ActiveLevelCompleted(selector, new_status)
                after == outcome.selector.level_statuses
            IN  IF Rank(new_status) > Rank(StatusOf(level_statuses, selected))
                THEN /\ StatusOf(after, selected) = new_status
                     /\ \A idx \in 0..(NUM_LEVELS - 1) :
                            idx # selected => StatusOf(after, idx) = StatusOf(level_statuses, idx)
                     /\ outcome.selector.active_filter = active_filter
                     /\ outcome.selector.level_indices_window.vec
                            = filtered_indices(after, active_filter)
                     /\ outcome.selector.window_positions[active_filter]
                            = WindowVec_position(outcome.selector.level_indices_window)
                     /\ is_some(outcome.change)
                     /\ unwrap(outcome.change).num_locked_change
                            = Some(NUM_LEVELS - Unlocked(after))
                ELSE /\ outcome.change = None
                     /\ \A idx \in 0..(NUM_LEVELS - 1) :
                            StatusOf(after, idx) = StatusOf(level_statuses, idx)
                     /\ selected < Len(level_statuses) => after = level_statuses
                     /\ Unlocked(after) = Unlocked(level_statuses)
                     /\ outcome.selector.active_filter = active_filter
                     /\ outcome.selector.level_indices_window = level_indices_window
                     /\ outcome.selector.window_positions = window_positions

\* The selected level is stored with a Complete status, which an earlier
\* ActiveLevelCompleted gave it: an Optimal status is better than it and a
\* Complete status of the same rating is not.
C26_Witness ==
    /\ is_some(active_level_idx(selector))
    /\ StatusOf(level_statuses, unwrap(active_level_idx(selector))) = LevelStatus_Complete(1)
    /\ \E new_status \in WinningStatuses : new_status.kind = "Optimal"
    /\ LevelStatus_Complete(1) \in WinningStatuses

(***************************************************************************)
(* C27.  Differential change reporting is sufficient: a display that shows *)
(* a full render of the selector and then draws only the slots of the      *)
(* change an action returns shows, in each of the W slots, what a full     *)
(* render of the selector after the action shows; all W slots are          *)
(* reported whenever the top of the window or the filtered list changed,   *)
(* and exactly the old and the new cursor slot when only the cursor moved  *)
(* under the filter that stays active.                                     *)
(***************************************************************************)
\* The display after the change of an outcome is drawn over a full render
\* of the selector before it.
DrawnAfter(outcome) ==
    IF is_some(outcome.change)
    THEN LevelSelectorChange_render(LevelSelector_render(selector), unwrap(outcome.change))
    ELSE LevelSelector_render(selector)

\* The slots an outcome reports, none without a change.
SlotsReported(outcome) ==
    IF is_some(outcome.change) THEN unwrap(outcome.change).slots_change ELSE <<>>

ChangeSuffices(outcome) ==
    LET before == level_indices_window
        after == outcome.selector.level_indices_window
        list_changed == after.vec # before.vec
        top_moved == /\ after.vec # <<>>
                     /\ before.vec # <<>>
                     /\ after.position.top_idx # before.position.top_idx
        cursor_moved == /\ outcome.selector.active_filter = active_filter
                        /\ after.vec # <<>>
                        /\ after.position.cursor_idx # before.position.cursor_idx
    IN  /\ DrawnAfter(outcome) = LevelSelector_render(outcome.selector)
        /\ (list_changed \/ top_moved)
               => SlotsReported(outcome) = window_slots(outcome.selector)
        /\ (~list_changed /\ ~top_moved /\ cursor_moved)
               => SlotsReported(outcome)
                      = <<unwrap(current_slot(selector, FALSE)),
                          unwrap(current_slot(outcome.selector, TRUE))>>

C27_ChangesSuffice ==
    /\ \A dir \in SelectDirection :
           /\ ChangeSuffices(ChangeActiveLevel(selector, dir))
           /\ ChangeSuffices(ChangePage(selector, dir))
           /\ ChangeSuffices(ChangeActiveFilter(selector, dir))
    /\ \A new_status \in WinningStatuses :
           ChangeSuffices(ActiveLevelCompleted(selector, new_status))

(***************************************************************************)
(* C28.  Filter cycling is circular in both directions: next follows All,  *)
(* Incomplete, PartiallyComplete, Optimal and All again, previous undoes   *)
(* next and next undoes previous on every filter, and ChangeActiveFilter   *)
(* always returns a change that names the filter that was active as        *)
(* inactive and the filter that follows it in the direction given, which   *)
(* is the active filter from then on, as active.                           *)
(***************************************************************************)
\* The filters in the order of the cycle.
FilterCycle == <<"All", "Incomplete", "PartiallyComplete", "Optimal">>

\* The place of a filter in the cycle.
PlaceOf(filter) == CHOOSE i \in 1..Len(FilterCycle) : FilterCycle[i] = filter

\* The filter after a filter on the cycle, and the one before it.
Following(filter) == FilterCycle[(PlaceOf(filter) % Len(FilterCycle)) + 1]

Preceding(filter) ==
    FilterCycle[((PlaceOf(filter) + Len(FilterCycle) - 2) % Len(FilterCycle)) + 1]

C28_FilterCycle ==
    /\ \A f \in Filter :
           /\ Filter_next(f) = Following(f)
           /\ Filter_previous(Filter_next(f)) = f
           /\ Filter_next(Filter_previous(f)) = f
    /\ \A dir \in SelectDirection :
           LET outcome == ChangeActiveFilter(selector, dir)
               turned == IF dir = "Next" THEN Following(active_filter)
                                         ELSE Preceding(active_filter)
           IN  /\ outcome.selector.active_filter = turned
               /\ is_some(outcome.change)
               /\ unwrap(outcome.change).filter_change
                      = Some([inactive |-> active_filter, active |-> turned])

\* The Optimal filter is active and lists a level, and the Incomplete
\* filter has been active too.
C28_Witness ==
    /\ active_filter = "Optimal"
    /\ ListOf("Optimal") # <<>>
    /\ is_some(window_positions["Incomplete"])

(***************************************************************************)
(* C29.  The number of moves reported by every Move, UndoMove and Restart  *)
(* that changes the run, which is the number the rating of a win is        *)
(* computed from, equals the length of the move history after the action,  *)
(* for every length the history reaches.                                   *)
(***************************************************************************)
C29_MoveCountIsHistoryLength ==
    [][(/\ action'.kind \in {"Move", "UndoMove", "Restart"}
        /\ ~panicked'
        /\ is_some(change'.pieces_changed))
       => /\ change'.num_moves_changed = Some(Len(move_stack'))
          /\ num_moves(move_stack') = Len(move_stack')
          /\ (is_some(change'.winning_status)
                  /\ unwrap(change'.winning_status).kind = "Complete")
                 => unwrap(change'.winning_status).rating
                        = LevelRating_new(this_level.optimal_moves, Len(move_stack'))]_vars

(***************************************************************************)
(* C30.  The at_max_moves flag reported by a Move is true exactly when the *)
(* history is at capacity after the action: the Move that fills the last   *)
(* slot reports it, every Move after it reports it as long as no UndoMove  *)
(* or Restart has made the history shorter, and every other Move reports   *)
(* false (the history of the std build has no capacity, so there the flag  *)
(* is never true).                                                         *)
(***************************************************************************)
C30_AtMaxMoves ==
    [][(action'.kind = "Move" /\ ~panicked')
       => /\ change'.at_max_moves <=> (~std /\ Len(move_stack') = MAX_MOVES)
          /\ AtCapacity => (change'.at_max_moves /\ move_stack' = move_stack)]_vars

\* The last action is the Move that filled the last slot of the history:
\* it reports its slide, the move count of the capacity and the flag.
C30_Witness ==
    /\ action.kind = "Move"
    /\ AtCapacity
    /\ is_some(change.pieces_changed)
    /\ change.num_moves_changed = Some(MAX_MOVES)
    /\ change.at_max_moves

(***************************************************************************)
(* C31.  A page_window that cannot shift the window at all (paging on with *)
(* the window on the last items of the list or the list no longer than the *)
(* window, paging back with the window on the first items) leaves the top  *)
(* and brings the cursor to the last, respectively first, item the window  *)
(* shows; it returns CursorOnly when that moves the cursor and None, with  *)
(* nothing changed, when the cursor is there already.  A page that follows *)
(* a page in the same direction that did not shift the window returns None *)
(* and changes nothing.                                                    *)
(***************************************************************************)
C31_PageAtTheEnd ==
    [][(window_call'.op = "page_window" /\ window.vec # <<>>) =>
          LET old == window.position
              new == window'.position
              forward == window_call'.direction = "Next"
              stuck == IF forward THEN old.top_idx = LastTop(window) ELSE old.top_idx = 0
              edge == IF forward THEN Min2(old.top_idx + W - 1, ListLen(window) - 1)
                                 ELSE old.top_idx
              again == /\ window_call.op = "page_window"
                       /\ window_call.direction = window_call'.direction
                       /\ window_call.change # "Window"
          IN  /\ stuck =>
                     /\ window'.vec = window.vec
                     /\ new = WindowPosition_new(old.top_idx, edge)
                     /\ window_call'.change = IF old.cursor_idx = edge THEN "None"
                                              ELSE "CursorOnly"
              /\ again =>
                     /\ window' = window
                     /\ window_call'.change = "None"]_vars

\* A page onward on a list longer than the window, with the window on the
\* last items already: the cursor was brought to the last item and
\* CursorOnly returned.
C31_Witness ==
    /\ window_call.op = "page_window"
    /\ window_call.direction = "Next"
    /\ window_call.change = "CursorOnly"
    /\ ListLen(window) > W
    /\ window.position = WindowPosition_new(LastTop(window), ListLen(window) - 1)

\* The number of lo..hi nearest to x.
Nearest(lo, hi, x) == IF x < lo THEN lo ELSE IF x > hi THEN hi ELSE x

(***************************************************************************)
(* C32.  set_position gives the window priority over the cursor: the top   *)
(* asked for is clipped to [0, max(len - W, 0)], then the cursor asked for *)
(* is clipped into [top, top + W - 1] and to at most len - 1.  The change  *)
(* returned is Window if the top differs from the top before, CursorOnly   *)
(* if only the cursor differs and None otherwise; on an empty list nothing *)
(* is changed and None is returned.                                        *)
(***************************************************************************)
C32_SetPosition ==
    [][window_call'.op = "set_position" =>
          IF window.vec = <<>>
          THEN window' = window /\ window_call'.change = "None"
          ELSE LET old == window.position
                   new == window'.position
                   asked == window_call'.position
                   top_idx == Nearest(0, LastTop(window), asked.top_idx)
                   cursor_idx == Nearest(top_idx,
                                         Min2(top_idx + W - 1, ListLen(window) - 1),
                                         asked.cursor_idx)
               IN  /\ window'.vec = window.vec
                   /\ new = WindowPosition_new(top_idx, cursor_idx)
                   /\ window_call'.change = (IF new.top_idx # old.top_idx THEN "Window"
                                             ELSE IF new.cursor_idx # old.cursor_idx
                                                  THEN "CursorOnly"
                                                  ELSE "None")]_vars

\* A set_position that asked for a top within the list and a cursor above
\* it: the top was taken as asked and the cursor brought into the window.
C32_Witness ==
    /\ window_call.op = "set_position"
    /\ window_call.change = "Window"
    /\ window_call.position.top_idx >= 1
    /\ window_call.position.cursor_idx < window_call.position.top_idx
    /\ window.position = WindowPosition_new(window_call.position.top_idx,
                                            window_call.position.top_idx)

(***************************************************************************)
(* C33.  A Restart with a non-empty history reports a Moved change, not a  *)
(* slide, with one entry per piece of the level in piece order: from is    *)
(* the position the piece had before the restart, from_space the terrain   *)
(* of the level at from, to the starting position of the piece, and        *)
(* is_active is true for the first piece only.  It reports a move count of *)
(* 0, no winning status and no at_max_moves.                               *)
(***************************************************************************)
C33_RestartReport ==
    [][(action'.kind = "Restart" /\ move_stack # <<>>) =>
          /\ is_some(change'.pieces_changed)
          /\ unwrap(change'.pieces_changed).kind = "Moved"
          /\ Len(unwrap(change'.pieces_changed).moved) = Cardinality(Pieces(this_level))
          /\ \A i \in 1..Len(unwrap(change'.pieces_changed).moved) :
                 LET entry == unwrap(change'.pieces_changed).moved[i]
                 IN  /\ entry.piece = PieceOrder[i]
                     /\ entry.from = positions[PieceOrder[i]]
                     /\ entry.from_space = get_space(this_level, positions[PieceOrder[i]])
                     /\ entry.to = this_level.starting_positions[i]
                     /\ entry.is_active <=> i = 1
          /\ change'.num_moves_changed = Some(0)
          /\ change'.winning_status = None
          /\ ~change'.at_max_moves]_vars

\* A Restart taken with the second piece active and away from its starting
\* position: its entry tells the move and is not marked active, and the
\* first piece's entry is.
C33_Witness ==
    /\ action.kind = "Restart"
    /\ is_some(change.pieces_changed)
    /\ unwrap(change.pieces_changed).moved[2].from # unwrap(change.pieces_changed).moved[2].to
    /\ ~unwrap(change.pieces_changed).moved[2].is_active
    /\ unwrap(change.pieces_changed).moved[1].is_active
    /\ \E i \in 1..Len(unwrap(change.pieces_changed).moved) :
           LET entry == unwrap(change.pieces_changed).moved[i]
           IN  entry.from_space.kind = "Goal" /\ entry.from # entry.to

\* The starting positions of a level by piece.
StartOf(lvl) == [piece \in Pieces(lvl) |-> lvl.starting_positions[Piece_as_u8(piece) + 1]]

\* Replaying the history entries of `stack` in order from the positions
\* `pos` ends in the positions `final`: each entry's piece stands on the
\* entry's starting position, slides at least one cell in the entry's
\* direction and stops on the last cell it can enter.
RECURSIVE ReplaysTo(_, _, _, _)
ReplaysTo(lvl, pos, stack, final) ==
    IF stack = <<>> THEN pos = final
    ELSE \E entry \in {Head(stack)} :
         \E run \in {MaxRun(lvl, pos, entry.muv.piece, entry.muv.direction)} :
             /\ run >= 1
             /\ starting_position(entry) = pos[entry.muv.piece]
             /\ ReplaysTo(lvl,
                          [pos EXCEPT ![entry.muv.piece] =
                               Cell(pos[entry.muv.piece], entry.muv.direction, run)],
                          Tail(stack), final)

(***************************************************************************)
(* C34.  In every reachable state of a level run the piece positions are   *)
(* what replaying the moves of the history, in order, as slides from the   *)
(* level's starting positions gives, and every history entry's starting    *)
(* position is where its piece stands when the replay comes to the entry.  *)
(***************************************************************************)
C34_HistoryReplays == [](ReplaysTo(this_level, StartOf(this_level), move_stack, positions))

\* Moves have been undone and others made after them: the history holds
\* entries of both pieces and the last action took one back.
C34_Witness ==
    /\ action.kind = "UndoMove"
    /\ Len(move_stack) >= 3
    /\ \E i, j \in 1..Len(move_stack) : move_stack[i].muv.piece # move_stack[j].muv.piece
    /\ positions # StartOf(this_level)

(***************************************************************************)
(* C35.  In every state reachable from a level whose starting positions    *)
(* are pairwise distinct, by any sequence of Move, ChangeActivePiece,      *)
(* UndoMove and Restart, no two pieces occupy the same cell.               *)
(***************************************************************************)
C35_NoTwoPiecesOnACell ==
    []((\A p, q \in Pieces(this_level) :
            p # q => StartOf(this_level)[p] # StartOf(this_level)[q])
           => \A p, q \in Pieces(this_level) : p # q => positions[p] # positions[q])

\* A Move has slid a piece up to the cell next to another piece, which
\* stopped it, and an UndoMove had been possible before: the history holds
\* more than one entry.
C35_Witness ==
    /\ MoveSucceeded
    /\ Len(move_stack) >= 2
    /\ \E q \in Pieces(this_level) :
           /\ q # ReportedSlide.muv.piece
           /\ positions[q] = Cell(positions[ReportedSlide.muv.piece],
                                  ReportedSlide.muv.direction, 1)

(***************************************************************************)
(* C36.  Every successful Move, direct or cascaded, changes the position   *)
(* of exactly one piece, the piece named in the slide it reports, appends  *)
(* exactly one entry, that slide, to the history, and leaves the position  *)
(* of every other piece as it was; after a cascaded Move the piece that    *)
(* was active and could not move stands where it stood, which is the       *)
(* position reported for it.                                               *)
(***************************************************************************)
C36_OnePieceOneEntry ==
    [][(action'.kind = "Move" /\ is_some(change'.pieces_changed)) =>
          LET report == unwrap(change'.pieces_changed)
              slid == report.piece_slid
          IN  /\ report.kind = "Slid"
              /\ {p \in Pieces(this_level) : positions'[p] # positions[p]} = {slid.muv.piece}
              /\ slid.muv.direction = action'.direction
              /\ move_stack' = Append(move_stack, slid)
              /\ is_some(report.old_active_piece) =>
                     /\ unwrap(report.old_active_piece).piece = active_piece
                     /\ active_piece # slid.muv.piece
                     /\ positions'[active_piece] = positions[active_piece]
                     /\ unwrap(report.old_active_piece).position = positions[active_piece]
                     /\ ~CanSlide(this_level, positions, active_piece, action'.direction)
              /\ ~is_some(report.old_active_piece) => slid.muv.piece = active_piece]_vars

\* A cascaded Move on a level of three pieces has slid the last piece of
\* the piece order: neither the active piece nor the piece tried before it
\* could move.
C36_Witness ==
    /\ MoveSucceeded
    /\ is_some(unwrap(change.pieces_changed).old_active_piece)
    /\ Cardinality(Pieces(this_level)) = 3
    /\ ReportedSlide.muv.piece = PieceOrder[3]
    /\ unwrap(unwrap(change.pieces_changed).old_active_piece).piece = PieceOrder[1]

(***************************************************************************)
(* C37.  After construction and after every selector action, the index     *)
(* list the selector's window holds is the filtered index list of the      *)
(* progress store as it is for the filter that is active.                  *)
(***************************************************************************)
C37_WindowListIsCurrent == level_indices_window.vec = ListOf(active_filter)

\* Under the Incomplete filter the first level has been completed: the
\* window lists levels, the first level is not among them, and a level
\* that the completion unlocked is.
C37_Witness ==
    /\ active_filter = "Incomplete"
    /\ LevelStatus_is_complete(StatusOf(level_statuses, 0))
    /\ level_indices_window.vec # <<>>
    /\ \A i \in 1..ListLen(level_indices_window) : level_indices_window.vec[i] # 0
    /\ \E i \in 1..ListLen(level_indices_window) :
           level_indices_window.vec[i] >= UNLOCKED_AHEAD

\* The levels whose stored status differs between two progress arrays.
Differing(before, after) ==
    {idx \in 0..(Max2(Len(before), Len(after)) - 1) :
        StatusOf(after, idx) # StatusOf(before, idx)}

(***************************************************************************)
(* C38.  Across any sequence of selector actions the count of unlocked     *)
(* levels never decreases and never exceeds the number of levels of the    *)
(* catalogue, and the index of the selected level, when there is one, is   *)
(* smaller than the count of unlocked levels; so whenever an action        *)
(* changes the progress store it changes the status of one level, the      *)
(* level that was selected, which is unlocked and in the catalogue, and    *)
(* the array never holds more entries than the catalogue has levels.       *)
(***************************************************************************)
C38_SelectedIsUnlocked ==
    /\ [](/\ Unlocked(level_statuses) <= NUM_LEVELS
          /\ Len(level_statuses) <= NUM_LEVELS
          /\ is_some(active_level_idx(selector)) =>
                 /\ unwrap(active_level_idx(selector)) \in 0..(NUM_LEVELS - 1)
                 /\ unwrap(active_level_idx(selector)) < Unlocked(level_statuses))
    /\ [][/\ Unlocked(level_statuses') >= Unlocked(level_statuses)
          /\ level_statuses' # level_statuses =>
                 /\ is_some(active_level_idx(selector))
                 /\ Differing(level_statuses, level_statuses')
                        = {unwrap(active_level_idx(selector))}
                 /\ unwrap(active_level_idx(selector)) < Unlocked(level_statuses)]_vars

\* The last level of the catalogue is selected and completed, and the
\* completed levels would unlock more levels than the catalogue has.
C38_Witness ==
    /\ active_level_idx(selector) = Some(NUM_LEVELS - 1)
    /\ LevelStatus_is_complete(StatusOf(level_statuses, NUM_LEVELS - 1))
    /\ Cardinality({idx \in 0..(NUM_LEVELS - 1) :
                       LevelStatus_is_complete(StatusOf(level_statuses, idx))})
           + UNLOCKED_AHEAD > NUM_LEVELS

(***************************************************************************)
(* C39.  Under the All filter ActiveLevelCompleted changes neither the     *)
(* level that is selected nor the top and cursor of the window: after the  *)
(* action the selected level is the one that was selected, whether or not  *)
(* the status was better and whether or not levels were unlocked.          *)
(***************************************************************************)
C39_CompletionKeepsSelection ==
    active_filter = "All" =>
        \A new_status \in WinningStatuses \cup {LevelStatus_Incomplete} :
            LET outcome == ActiveLevelCompleted(selector, new_status)
            IN  /\ outcome.selector.active_filter = "All"
                /\ active_level_idx(outcome.selector) = active_level_idx(selector)
                /\ WindowVec_position(outcome.selector.level_indices_window) = Shown
                /\ outcome.selector.window_positions["All"] = Shown

\* Under the All filter the window is off the top of the list with the
\* cursor off the top of the window, on a level that is not completed yet
\* while levels are still locked: completing it unlocks a level.
C39_Witness ==
    /\ active_filter = "All"
    /\ is_some(Shown)
    /\ unwrap(Shown).top_idx >= 1
    /\ unwrap(Shown).cursor_idx > unwrap(Shown).top_idx
    /\ ~LevelStatus_is_complete(StatusOf(level_statuses, unwrap(active_level_idx(selector))))
    /\ Unlocked(level_statuses) < NUM_LEVELS

\* The filters other than All.
NarrowFilters == Filter \ {"All"}

\* The levels a filter lists on a store.
Listed(statuses, filter) ==
    {filtered_indices(statuses, filter)[i] : i \in 1..Len(filtered_indices(statuses, filter))}

(***************************************************************************)
(* C40.  The filters Incomplete, PartiallyComplete and Optimal partition   *)
(* the statuses: every LevelStatus value, a Complete status without a star *)
(* or with all five among them, passes exactly one of the three and passes *)
(* All; so on every store every unlocked level is in the All list and in   *)
(* the list of exactly one of the other three filters, and no list holds a *)
(* level that is locked.                                                   *)
(***************************************************************************)
C40_FiltersPartition ==
    /\ \A status \in LevelStatuses \cup {LevelStatus_Complete(LevelRating_default)} :
           /\ Filter_passes("All", status)
           /\ Cardinality({f \in NarrowFilters : Filter_passes(f, status)}) = 1
    /\ Listed(level_statuses, "All") = 0..(Unlocked(level_statuses) - 1)
    /\ \A idx \in 0..(Unlocked(level_statuses) - 1) :
           Cardinality({f \in NarrowFilters : idx \in Listed(level_statuses, f)}) = 1
    /\ \A f \in NarrowFilters : Listed(level_statuses, f) \subseteq Listed(level_statuses, "All")

\* A store with a level of each kind among the unlocked ones, of which the
\* PartiallyComplete levels have just been listed.
C40_Witness ==
    /\ call.op = "filtered_indices"
    /\ call.filter = "PartiallyComplete"
    /\ call.indices # <<>>
    /\ \A f \in NarrowFilters : Listed(level_statuses, f) # {}

====
